---- MODULE Spec2Model ----
(***************************************************************************)
(* stripe-decline-codes: the decline-code table and the lookup API built   *)
(* on it (isValidDeclineCode, getDeclineDescription, getDeclineMessage,    *)
(* getDeclineCategory, isHardDecline, isSoftDecline,                       *)
(* getMessageFromStripeError, formatDeclineMessage, getAllDeclineCodes,    *)
(* getDocVersion), and the RenewalReminder class, which pages through the  *)
(* subscriptions of plans of a Stripe account.                             *)
(*                                                                         *)
(* The API is a set of synchronous functions over one module-level object. *)
(* A state is the table, the last call a caller made and the value that    *)
(* call returned; every action is one whole call.                          *)
(*                                                                         *)
(* JavaScript values are tagged records, so that a string, a boolean,      *)
(* undefined, an object and a built-in of the runtime are never confused:  *)
(* property reads follow the prototype chain as the language does.         *)
(* Non-ASCII characters of the table's strings are written \uXXXX.         *)
(***************************************************************************)
EXTENDS Naturals, Sequences, FiniteSets, TLC

VARIABLES table, call, result, callers, plans, fetches, subscriptions, promise

\* The lookup API with one caller; several callers at once; RenewalReminder.
lookupVars == <<table, call, result>>

reminderVars == <<plans, fetches, subscriptions, promise>>

vars == <<table, call, result, callers, plans, fetches, subscriptions, promise>>

(***************************************************************************)
(* JavaScript values                                                       *)
(***************************************************************************)
Undefined == [type |-> "undefined"]

Str(s) == [type |-> "string", str |-> s]

Bool(b) == [type |-> "boolean", bool |-> b]

\* An ordinary object: its own properties; its prototype is Object.prototype.
Obj(props) == [type |-> "object", props |-> props]

\* An object or function the runtime supplies (Object.prototype, its methods).
Builtin(name) == [type |-> "builtin", name |-> name]

Null == [type |-> "null"]

\* A raised exception, as the outcome of an expression.
Throw(error) == [type |-> "throw", error |-> error]

EmptyProps == [k \in {} |-> Undefined]

\* The properties every ordinary object inherits from Object.prototype.
ObjectPrototypeNames ==
  { "constructor", "__defineGetter__", "__defineSetter__", "hasOwnProperty",
    "__lookupGetter__", "__lookupSetter__", "isPrototypeOf",
    "propertyIsEnumerable", "toString", "valueOf", "__proto__",
    "toLocaleString" }

\* The properties a built-in function has of its own or from Function.prototype.
FunctionNames ==
  { "length", "name", "arguments", "caller", "apply", "bind", "call" }

\* Reading an inherited property of an ordinary object.
ObjectPrototypeGet(key) ==
  IF key = "__proto__" THEN Builtin("Object.prototype")
  ELSE IF key = "constructor" THEN Builtin("Object")
  ELSE Builtin("Object.prototype." \o key)

\* The names a built-in value answers to.
BuiltinNames(v) ==
  IF v.name = "Object.prototype" THEN ObjectPrototypeNames
  ELSE ObjectPrototypeNames \cup FunctionNames

\* `key in obj`: own or inherited.
HasProperty(obj, key) ==
  key \in DOMAIN obj.props \/ key \in ObjectPrototypeNames

\* `obj[key]` / `obj.key`: own property, else the prototype chain, else undefined;
\* a read from undefined raises.
Get(v, key) ==
  CASE v.type = "object" ->
         IF key \in DOMAIN v.props THEN v.props[key]
         ELSE IF key \in ObjectPrototypeNames THEN ObjectPrototypeGet(key)
         ELSE Undefined
    [] v.type = "builtin" ->
         IF key \notin BuiltinNames(v) THEN Undefined
         ELSE IF v.name = "Object.prototype"
              THEN IF key = "__proto__" THEN Null ELSE ObjectPrototypeGet(key)
              ELSE Builtin(v.name \o "." \o key)
    [] v.type \in {"undefined", "null"} -> Throw("TypeError")
    [] OTHER -> Undefined

\* `v?.[key]`: undefined when v is undefined or null, else the read.
OptionalGet(v, key) == IF v \in {Undefined, Null} THEN Undefined ELSE Get(v, key)

\* `!v` for the values a string-typed optional can take.
Falsy(v) == v \in {Undefined, Null, Str("")}

\* `a === b`.
StrictEquals(a, b) == a = b

\* The property name a value used as a key stands for.
PropertyKey(v) ==
  CASE v.type = "string" -> v.str
    [] v.type = "undefined" -> "undefined"
    [] v.type = "null" -> "null"

\* The i-th argument of a call; a missing argument reads as undefined.
Arg(args, i) == IF i <= Len(args) THEN args[i] ELSE Undefined

\* A parameter with a default: the default applies when the argument is undefined.
Default(v, d) == IF v = Undefined THEN d ELSE v

(***************************************************************************)
(* Strings, Object.entries, RegExp and String.prototype.replace            *)
(***************************************************************************)
\* Position i of s starts a character: it is not inside a \uXXXX.
StartsChar(s, i) ==
  \A k \in 1..5 : i - k < 1 \/ SubSeq(s, i - k, i - k + 1) /= "\\u"

\* The character of s that starts at position i.
CharAt(s, i) ==
  IF i + 5 <= Len(s) /\ SubSeq(s, i, i + 1) = "\\u"
  THEN SubSeq(s, i, i + 5)
  ELSE SubSeq(s, i, i)

\* The characters of s that start in positions i..j, by halves.
RECURSIVE CharsBetween(_, _, _)
CharsBetween(s, i, j) ==
  IF i > j THEN <<>>
  ELSE IF i = j THEN IF StartsChar(s, i) THEN <<CharAt(s, i)>> ELSE <<>>
  ELSE LET mid == (i + j) \div 2
       IN  CharsBetween(s, i, mid) \o CharsBetween(s, mid + 1, j)

\* The characters of a string, one element each; \uXXXX is one character.
Chars(s) == CharsBetween(s, 1, Len(s))

\* The string made of the characters cs[i..j], by halves.
RECURSIVE Join(_, _, _)
Join(cs, i, j) ==
  IF i > j THEN ""
  ELSE IF i = j THEN cs[i]
  ELSE LET mid == (i + j) \div 2
       IN  Join(cs, i, mid) \o Join(cs, mid + 1, j)

\* The upper-case form of each lower-case letter.
UpperCase ==
  [a |-> "A", b |-> "B", c |-> "C", d |-> "D", e |-> "E", f |-> "F", g |-> "G",
   h |-> "H", i |-> "I", j |-> "J", k |-> "K", l |-> "L", m |-> "M", n |-> "N",
   o |-> "O", p |-> "P", q |-> "Q", r |-> "R", s |-> "S", t |-> "T", u |-> "U",
   v |-> "V", w |-> "W", x |-> "X", y |-> "Y", z |-> "Z"]

Digits == {"0", "1", "2", "3", "4", "5", "6", "7", "8", "9"}

AlphaNumeric ==
  Digits \cup DOMAIN UpperCase \cup {UpperCase[c] : c \in DOMAIN UpperCase}

DigitValue ==
  [d \in Digits |->
     CHOOSE n \in 0..9 : <<"0", "1", "2", "3", "4", "5", "6", "7", "8", "9">>[n + 1] = d]

\* A property name that is an array index: a canonical decimal numeral.
IsArrayIndex(key) ==
  LET cs == Chars(key)
  IN  /\ Len(cs) \in 1..9
      /\ \A i \in 1..Len(cs) : cs[i] \in Digits
      /\ Len(cs) = 1 \/ cs[1] /= "0"

RECURSIVE NumericValue(_, _)
NumericValue(cs, n) ==
  IF n = 0 THEN 0 ELSE 10 * NumericValue(cs, n - 1) + DigitValue[cs[n]]

\* The order in which an object lists its own keys: array indices ascending,
\* then the other names in the order they were inserted.
OwnKeyOrder(inserted) ==
  SortSeq(SelectSeq(inserted, IsArrayIndex),
          LAMBDA a, b : NumericValue(Chars(a), Len(Chars(a)))
                          < NumericValue(Chars(b), Len(Chars(b))))
    \o SelectSeq(inserted, LAMBDA k : ~IsArrayIndex(k))

\* An object written as a literal: the entries in the order written; a name
\* written twice keeps its first place and its last value.
ObjectLiteral(entries) ==
  LET names == [i \in 1..Len(entries) |-> entries[i][1]]
      places == SelectSeq([i \in 1..Len(entries) |-> i],
                          LAMBDA i : \A j \in 1..(i - 1) : names[j] /= names[i])
      last(k) == CHOOSE i \in 1..Len(entries) :
                   /\ names[i] = k
                   /\ \A j \in (i + 1)..Len(entries) : names[j] /= k
  IN  [type |-> "object",
       props |-> [k \in {names[i] : i \in 1..Len(entries)} |->
                    entries[last(k)][2]],
       keys |-> OwnKeyOrder([i \in 1..Len(places) |-> names[places[i]]])]

\* Object.entries(obj): the [key, value] pairs in own-key order.
ObjectEntries(obj) ==
  [i \in 1..Len(obj.keys) |-> <<obj.keys[i], obj.props[obj.keys[i]]>>]

\* One pattern term: a literal character or `.`.
Literal(c) == [any |-> FALSE, ch |-> c]

AnyChar == [any |-> TRUE, ch |-> ""]

LineTerminators == {"\n", "\r", "\\u2028", "\\u2029"}

\* The outcomes of compiling a pattern: the alternatives of a pattern made of
\* literals, escaped punctuation, `.` and `|`; a SyntaxError; or a pattern that
\* uses a construct not modelled here (groups, classes, quantifiers, anchors).
Compiled(alts) == [kind |-> "ok", alts |-> alts]

SyntaxError == [kind |-> "SyntaxError", alts |-> <<>>]

NotModelled == [kind |-> "not modelled", alts |-> <<>>]

\* new RegExp(source, 'g'): p are the characters of source, read from i on;
\* alts are the alternatives read so far, cur the terms of the current one.
RECURSIVE Compile(_, _, _, _)
Compile(p, i, alts, cur) ==
  IF i > Len(p) THEN Compiled(Append(alts, cur))
  ELSE LET c == p[i]
           later == {p[j] : j \in (i + 1)..Len(p)}
       IN  CASE c = "\\" ->
                  IF i = Len(p) THEN SyntaxError
                  ELSE IF p[i + 1] \in AlphaNumeric THEN NotModelled
                  ELSE Compile(p, i + 2, alts, Append(cur, Literal(p[i + 1])))
             [] c = "." -> Compile(p, i + 1, alts, Append(cur, AnyChar))
             [] c = "|" -> Compile(p, i + 1, Append(alts, cur), <<>>)
             [] c = "(" -> IF ")" \in later THEN NotModelled ELSE SyntaxError
             [] c = ")" -> SyntaxError
             [] c = "[" -> IF "]" \in later THEN NotModelled ELSE SyntaxError
             [] c \in {"*", "+", "?"} ->
                  IF cur = <<>> THEN SyntaxError ELSE NotModelled
             [] c \in {"^", "$"} -> NotModelled
             [] c = "{" ->
                  IF i < Len(p) /\ p[i + 1] \in Digits /\ cur /= <<>>
                  THEN NotModelled
                  ELSE Compile(p, i + 1, alts, Append(cur, Literal(c)))
             [] OTHER -> Compile(p, i + 1, alts, Append(cur, Literal(c)))

RegExp(source) == Compile(Chars(source), 1, <<>>, <<>>)

TermMatches(term, c) ==
  IF term.any THEN c \notin LineTerminators ELSE term.ch = c

\* The alternative matches the text at pos.
AlternativeMatches(alt, text, pos) ==
  /\ pos + Len(alt) - 1 <= Len(text)
  /\ \A k \in 1..Len(alt) : TermMatches(alt[k], text[pos + k - 1])

\* One more than the length of the match at pos (the first alternative that
\* matches there), or 0 when none matches.
MatchAt(alts, text, pos) ==
  LET matching == {a \in 1..Len(alts) : AlternativeMatches(alts[a], text, pos)}
  IN  IF matching = {} THEN 0
      ELSE Len(alts[CHOOSE a \in matching : \A b \in matching : a <= b]) + 1

\* The replacement text for one match: $$, $& and $' are patterns; with no
\* capture group every other $ stands for itself. (The pattern for the text
\* before the match is left out: no value here contains a grave accent.)
RECURSIVE GetSubstitution(_, _, _, _)
GetSubstitution(r, i, matched, after) ==
  IF i > Len(r) THEN ""
  ELSE IF r[i] = "$" /\ i < Len(r) /\ r[i + 1] \in {"$", "&", "'"}
       THEN (CASE r[i + 1] = "$" -> "$"
               [] r[i + 1] = "&" -> matched
               [] r[i + 1] = "'" -> after)
              \o GetSubstitution(r, i + 2, matched, after)
       ELSE r[i] \o GetSubstitution(r, i + 1, matched, after)

\* text.replace(/alts/g, r) from pos on: every match, left to right, an empty
\* match stepping one character on. lens[q] is MatchAt for each position q.
RECURSIVE ReplaceFrom(_, _, _, _)
ReplaceFrom(text, lens, r, pos) ==
  LET starts == {q \in pos..(Len(text) + 1) : lens[q] /= 0}
  IN  IF starts = {} THEN Join(text, pos, Len(text))
      ELSE LET q == CHOOSE x \in starts : \A y \in starts : x <= y
               len == lens[q] - 1
               next == IF len = 0 THEN q + 1 ELSE q + len
           IN  Join(text, pos, q - 1)
                 \o GetSubstitution(r, 1, Join(text, q, q + len - 1),
                                    Join(text, q + len, Len(text)))
                 \o (IF len = 0 /\ q <= Len(text) THEN text[q] ELSE "")
                 \o ReplaceFrom(text, lens, r, next)

\* s.replace(new RegExp(source, 'g'), value): the new string, or the
\* SyntaxError the constructor raises.
ReplaceAll(s, source, value) ==
  LET re == RegExp(source)
  IN  IF re.kind = "SyntaxError" THEN Throw("SyntaxError")
      ELSE LET text == Chars(s)
               lens == [q \in 1..(Len(text) + 1) |-> MatchAt(re.alts, text, q)]
           IN  Str(ReplaceFrom(text, lens, Chars(value), 1))

(***************************************************************************)
(* data/decline-codes.ts                                                   *)
(***************************************************************************)
DOC_VERSION == Str("2024-12-18")

DECLINE_CODES ==
  Obj([
    approve_with_id |-> Obj([
      description |-> Str("The payment cannot be authorized."),
      nextSteps |-> Str("The payment should be attempted again. If it still cannot be processed, the customer needs to contact their card issuer."),
      nextUserAction |-> Str("Please try again. If it still cannot be processed, the please contact your card issuer."),
      category |-> Str("SOFT_DECLINE"),
      translations |-> Obj([
        ja |-> Obj([
          description |-> Str("\\u652f\\u6255\\u3044\\u306f\\u627f\\u8a8d\\u3067\\u304d\\u307e\\u305b\\u3093\\u3002"),
          nextUserAction |-> Str("\\u3082\\u3046\\u4e00\\u5ea6\\u3084\\u308a\\u76f4\\u3057\\u3066\\u304f\\u3060\\u3055\\u3044\\u3002\\u305d\\u308c\\u3067\\u3082\\u51e6\\u7406\\u3067\\u304d\\u306a\\u3044\\u5834\\u5408\\u306f\\u3001\\u30ab\\u30fc\\u30c9\\u767a\\u884c\\u4f1a\\u793e\\u306b\\u304a\\u554f\\u3044\\u5408\\u308f\\u305b\\u304f\\u3060\\u3055\\u3044\\u3002")
        ])
      ])
    ]),
    call_issuer |-> Obj([
      description |-> Str("The card has been declined for an unknown reason."),
      nextSteps |-> Str("The customer needs to contact their card issuer for more information."),
      nextUserAction |-> Str("Please contact your card issuer for more information."),
      category |-> Str("SOFT_DECLINE"),
      translations |-> Obj([
        ja |-> Obj([
          description |-> Str("\\u30ab\\u30fc\\u30c9\\u306f\\u672a\\u77e5\\u306e\\u7406\\u7531\\u3067\\u62d2\\u5426\\u3055\\u308c\\u307e\\u3057\\u305f\\u3002"),
          nextUserAction |-> Str("\\u8a73\\u3057\\u304f\\u306f\\u30ab\\u30fc\\u30c9\\u767a\\u884c\\u4f1a\\u793e\\u306b\\u304a\\u554f\\u3044\\u5408\\u308f\\u305b\\u304f\\u3060\\u3055\\u3044\\u3002")
        ])
      ])
    ]),
    card_not_supported |-> Obj([
      description |-> Str("The card does not support this type of purchase."),
      nextSteps |-> Str("The customer needs to contact their card issuer to make sure their card can be used to make this type of purchase."),
      nextUserAction |-> Str("Your card issuer may not support this type of purchase, please contact your card issuer for more information."),
      category |-> Str("HARD_DECLINE"),
      translations |-> Obj([
        ja |-> Obj([
          description |-> Str("\\u30ab\\u30fc\\u30c9\\u306f\\u3053\\u306e\\u30bf\\u30a4\\u30d7\\u306e\\u8cfc\\u5165\\u3092\\u30b5\\u30dd\\u30fc\\u30c8\\u3057\\u307e\\u305b\\u3093\\u3002"),
          nextUserAction |-> Str("\\u30ab\\u30fc\\u30c9\\u767a\\u884c\\u8005\\u306f\\u3053\\u306e\\u30bf\\u30a4\\u30d7\\u306e\\u8cfc\\u5165\\u3092\\u30b5\\u30dd\\u30fc\\u30c8\\u3057\\u3066\\u3044\\u306a\\u3044\\u53ef\\u80fd\\u6027\\u304c\\u3042\\u308a\\u307e\\u3059\\u3002\\u8a73\\u7d30\\u306b\\u3064\\u3044\\u3066\\u306f\\u3001\\u30ab\\u30fc\\u30c9\\u767a\\u884c\\u4f1a\\u793e\\u306b\\u304a\\u554f\\u3044\\u5408\\u308f\\u305b\\u304f\\u3060\\u3055\\u3044\\u3002")
        ])
      ])
    ]),
    card_velocity_exceeded |-> Obj([
      description |-> Str("The customer has exceeded the balance or credit limit available on their card."),
      nextSteps |-> Str("The customer should contact their card issuer for more information."),
      nextUserAction |-> Str("Please contact your card issuer for more information."),
      category |-> Str("SOFT_DECLINE"),
      translations |-> Obj([
        ja |-> Obj([
          description |-> Str("\\u3053\\u306e\\u30ab\\u30fc\\u30c9\\u306e\\u6b8b\\u9ad8\\u307e\\u305f\\u306f\\u30af\\u30ec\\u30b8\\u30c3\\u30c8\\u5236\\u9650\\u3092\\u8d85\\u3048\\u307e\\u3057\\u305f\\u3002"),
          nextUserAction |-> Str("\\u8a73\\u3057\\u304f\\u306f\\u30ab\\u30fc\\u30c9\\u767a\\u884c\\u4f1a\\u793e\\u306b\\u304a\\u554f\\u3044\\u5408\\u308f\\u305b\\u304f\\u3060\\u3055\\u3044\\u3002")
        ])
      ])
    ]),
    currency_not_supported |-> Obj([
      description |-> Str("The card does not support the specified currency."),
      nextSteps |-> Str("The customer needs to check with the issuer whether the card can be used for the type of currency specified."),
      nextUserAction |-> Str("Please contact your card issuer to verify this type of currency can be used for this payment."),
      category |-> Str("HARD_DECLINE"),
      translations |-> Obj([
        ja |-> Obj([
          description |-> Str("\\u30ab\\u30fc\\u30c9\\u306f\\u6307\\u5b9a\\u3055\\u308c\\u305f\\u901a\\u8ca8\\u3092\\u30b5\\u30dd\\u30fc\\u30c8\\u3057\\u3066\\u3044\\u307e\\u305b\\u3093\\u3002"),
          nextUserAction |-> Str("\\u3053\\u306e\\u652f\\u6255\\u3044\\u306b\\u3053\\u306e\\u30bf\\u30a4\\u30d7\\u306e\\u901a\\u8ca8\\u304c\\u4f7f\\u7528\\u3067\\u304d\\u308b\\u3053\\u3068\\u3092\\u78ba\\u8a8d\\u3059\\u308b\\u306b\\u306f\\u3001\\u30ab\\u30fc\\u30c9\\u767a\\u884c\\u4f1a\\u793e\\u306b\\u9023\\u7d61\\u3057\\u3066\\u304f\\u3060\\u3055\\u3044\\u3002")
        ])
      ])
    ]),
    do_not_honor |-> Obj([
      description |-> Str("The card has been declined for an unknown reason."),
      nextSteps |-> Str("The customer needs to contact their card issuer for more information."),
      nextUserAction |-> Str("Please contact your card issuer for more information."),
      category |-> Str("SOFT_DECLINE"),
      translations |-> Obj([
        ja |-> Obj([
          description |-> Str("\\u30ab\\u30fc\\u30c9\\u306f\\u672a\\u77e5\\u306e\\u7406\\u7531\\u3067\\u62d2\\u5426\\u3055\\u308c\\u307e\\u3057\\u305f\\u3002"),
          nextUserAction |-> Str("\\u8a73\\u3057\\u304f\\u306f\\u30ab\\u30fc\\u30c9\\u767a\\u884c\\u4f1a\\u793e\\u306b\\u304a\\u554f\\u3044\\u5408\\u308f\\u305b\\u304f\\u3060\\u3055\\u3044\\u3002")
        ])
      ])
    ]),
    do_not_try_again |-> Obj([
      description |-> Str("The card has been declined for an unknown reason."),
      nextSteps |-> Str("The customer should contact their card issuer for more information."),
      nextUserAction |-> Str("Please contact your card issuer for more information."),
      category |-> Str("HARD_DECLINE"),
      translations |-> Obj([
        ja |-> Obj([
          description |-> Str("\\u30ab\\u30fc\\u30c9\\u306f\\u672a\\u77e5\\u306e\\u7406\\u7531\\u3067\\u62d2\\u5426\\u3055\\u308c\\u307e\\u3057\\u305f\\u3002"),
          nextUserAction |-> Str("\\u8a73\\u3057\\u304f\\u306f\\u30ab\\u30fc\\u30c9\\u767a\\u884c\\u4f1a\\u793e\\u306b\\u304a\\u554f\\u3044\\u5408\\u308f\\u305b\\u304f\\u3060\\u3055\\u3044\\u3002")
        ])
      ])
    ]),
    duplicate_transaction |-> Obj([
      description |-> Str("A transaction with identical amount and credit card information was submitted very recently."),
      nextSteps |-> Str("Check to see if a recent payment already exists."),
      nextUserAction |-> Str("Check to see if a recent payment already exists."),
      category |-> Str("SOFT_DECLINE"),
      translations |-> Obj([
        ja |-> Obj([
          description |-> Str("\\u3054\\u304f\\u6700\\u8fd1\\u3001\\u540c\\u4e00\\u306e\\u91d1\\u984d\\u3068\\u30af\\u30ec\\u30b8\\u30c3\\u30c8\\u30ab\\u30fc\\u30c9\\u60c5\\u5831\\u3092\\u4f7f\\u7528\\u3057\\u305f\\u53d6\\u5f15\\u304c\\u9001\\u4fe1\\u3055\\u308c\\u307e\\u3057\\u305f\\u3002"),
          nextUserAction |-> Str("\\u6700\\u8fd1\\u306e\\u652f\\u6255\\u3044\\u304c\\u65e2\\u306b\\u5b58\\u5728\\u3059\\u308b\\u304b\\u3069\\u3046\\u304b\\u3092\\u78ba\\u8a8d\\u3057\\u3066\\u304f\\u3060\\u3055\\u3044\\u3002")
        ])
      ])
    ]),
    expired_card |-> Obj([
      description |-> Str("The card has expired."),
      nextSteps |-> Str("The customer should use another card."),
      nextUserAction |-> Str("Please use another card."),
      category |-> Str("HARD_DECLINE"),
      translations |-> Obj([
        ja |-> Obj([
          description |-> Str("\\u30ab\\u30fc\\u30c9\\u306f\\u671f\\u9650\\u5207\\u308c\\u3067\\u3059\\u3002"),
          nextUserAction |-> Str("\\u5225\\u306e\\u30ab\\u30fc\\u30c9\\u3092\\u4f7f\\u7528\\u3057\\u3066\\u304f\\u3060\\u3055\\u3044\\u3002")
        ])
      ])
    ]),
    fraudulent |-> Obj([
      description |-> Str("The payment has been declined as Stripe suspects it is fraudulent."),
      nextSteps |-> Str("Do not report more detailed information to your customer. Instead, present as you would the generic_decline described below."),
      nextUserAction |-> Str("Please contact your card issuer for more information."),
      category |-> Str("HARD_DECLINE"),
      translations |-> Obj([
        ja |-> Obj([
          description |-> Str("\\u4e0d\\u6b63\\u3068\\u601d\\u308f\\u308c\\u308b\\u305f\\u3081\\u3001\\u652f\\u6255\\u3044\\u306f\\u62d2\\u5426\\u3055\\u308c\\u307e\\u3057\\u305f\\u3002"),
          nextUserAction |-> Str("\\u8a73\\u3057\\u304f\\u306f\\u30ab\\u30fc\\u30c9\\u767a\\u884c\\u4f1a\\u793e\\u306b\\u304a\\u554f\\u3044\\u5408\\u308f\\u305b\\u304f\\u3060\\u3055\\u3044\\u3002")
        ])
      ])
    ]),
    generic_decline |-> Obj([
      description |-> Str("The card has been declined for an unknown reason."),
      nextSteps |-> Str("The customer needs to contact their card issuer for more information."),
      nextUserAction |-> Str("Please contact your card issuer for more information."),
      category |-> Str("SOFT_DECLINE"),
      translations |-> Obj([
        ja |-> Obj([
          description |-> Str("\\u30ab\\u30fc\\u30c9\\u306f\\u672a\\u77e5\\u306e\\u7406\\u7531\\u3067\\u62d2\\u5426\\u3055\\u308c\\u307e\\u3057\\u305f\\u3002"),
          nextUserAction |-> Str("\\u8a73\\u3057\\u304f\\u306f\\u30ab\\u30fc\\u30c9\\u767a\\u884c\\u4f1a\\u793e\\u306b\\u304a\\u554f\\u3044\\u5408\\u308f\\u305b\\u304f\\u3060\\u3055\\u3044\\u3002")
        ])
      ])
    ]),
    incorrect_number |-> Obj([
      description |-> Str("The card number is incorrect."),
      nextSteps |-> Str("The customer should try again using the correct card number."),
      nextUserAction |-> Str("Please check your card numbers and try again. If it still cannot be processed, the please contact your card issuer."),
      category |-> Str("HARD_DECLINE"),
      translations |-> Obj([
        ja |-> Obj([
          description |-> Str("\\u30ab\\u30fc\\u30c9\\u756a\\u53f7\\u304c\\u6b63\\u3057\\u304f\\u3042\\u308a\\u307e\\u305b\\u3093\\u3002"),
          nextUserAction |-> Str("\\u30ab\\u30fc\\u30c9\\u756a\\u53f7\\u3092\\u78ba\\u8a8d\\u3057\\u3066\\u3082\\u3046\\u4e00\\u5ea6\\u3084\\u308a\\u76f4\\u3057\\u3066\\u304f\\u3060\\u3055\\u3044\\u3002\\u305d\\u308c\\u3067\\u3082\\u51e6\\u7406\\u3067\\u304d\\u306a\\u3044\\u5834\\u5408\\u306f\\u3001\\u30ab\\u30fc\\u30c9\\u767a\\u884c\\u4f1a\\u793e\\u306b\\u304a\\u554f\\u3044\\u5408\\u308f\\u305b\\u304f\\u3060\\u3055\\u3044\\u3002")
        ])
      ])
    ]),
    incorrect_cvc |-> Obj([
      description |-> Str("The CVC number is incorrect."),
      nextSteps |-> Str("The customer should try again using the correct CVC."),
      nextUserAction |-> Str("Please check your card numbers and try again. If it still cannot be processed, the please contact your card issuer."),
      category |-> Str("HARD_DECLINE"),
      translations |-> Obj([
        ja |-> Obj([
          description |-> Str("CVC\\u756a\\u53f7\\u304c\\u6b63\\u3057\\u304f\\u3042\\u308a\\u307e\\u305b\\u3093\\u3002"),
          nextUserAction |-> Str("CSC\\u756a\\u53f7\\u3092\\u78ba\\u8a8d\\u3057\\u3066\\u3082\\u3046\\u4e00\\u5ea6\\u3084\\u308a\\u76f4\\u3057\\u3066\\u304f\\u3060\\u3055\\u3044\\u3002\\u305d\\u308c\\u3067\\u3082\\u51e6\\u7406\\u3067\\u304d\\u306a\\u3044\\u5834\\u5408\\u306f\\u3001\\u30ab\\u30fc\\u30c9\\u767a\\u884c\\u4f1a\\u793e\\u306b\\u304a\\u554f\\u3044\\u5408\\u308f\\u305b\\u304f\\u3060\\u3055\\u3044\\u3002")
        ])
      ])
    ]),
    incorrect_pin |-> Obj([
      description |-> Str("The PIN entered is incorrect. This decline code only applies to payments made with a card reader."),
      nextSteps |-> Str("The customer should try again using the correct PIN."),
      nextUserAction |-> Str("Please check your PIN and try again. If it still cannot be processed, the please contact your card issuer."),
      category |-> Str("HARD_DECLINE"),
      translations |-> Obj([
        ja |-> Obj([
          description |-> Str("PIN\\u30b3\\u30fc\\u30c9\\u304c\\u6b63\\u3057\\u304f\\u3042\\u308a\\u307e\\u305b\\u3093\\u3002"),
          nextUserAction |-> Str("PIN\\u30b3\\u30fc\\u30c9\\u3092\\u78ba\\u8a8d\\u3057\\u3066\\u3082\\u3046\\u4e00\\u5ea6\\u3084\\u308a\\u76f4\\u3057\\u3066\\u304f\\u3060\\u3055\\u3044\\u3002\\u305d\\u308c\\u3067\\u3082\\u51e6\\u7406\\u3067\\u304d\\u306a\\u3044\\u5834\\u5408\\u306f\\u3001\\u30ab\\u30fc\\u30c9\\u767a\\u884c\\u4f1a\\u793e\\u306b\\u304a\\u554f\\u3044\\u5408\\u308f\\u305b\\u304f\\u3060\\u3055\\u3044\\u3002")
        ])
      ])
    ]),
    incorrect_zip |-> Obj([
      description |-> Str("The ZIP/postal code is incorrect."),
      nextSteps |-> Str("The customer should try again using the correct billing ZIP/postal code."),
      nextUserAction |-> Str("Please try again using the correct ZIP/postal code."),
      category |-> Str("HARD_DECLINE"),
      translations |-> Obj([
        ja |-> Obj([
          description |-> Str("\\u90f5\\u4fbf\\u756a\\u53f7\\u304c\\u6b63\\u3057\\u304f\\u3042\\u308a\\u307e\\u305b\\u3093\\u3002"),
          nextUserAction |-> Str("\\u6b63\\u3057\\u3044\\u90f5\\u4fbf\\u756a\\u53f7\\u3092\\u4f7f\\u7528\\u3057\\u3066\\u3082\\u3046\\u4e00\\u5ea6\\u304a\\u8a66\\u3057\\u304f\\u3060\\u3055\\u3044\\u3002")
        ])
      ])
    ]),
    insufficient_funds |-> Obj([
      description |-> Str("The card has insufficient funds to complete the purchase."),
      nextSteps |-> Str("The customer should use an alternative payment method."),
      nextUserAction |-> Str("Please try again using an alternative payment method."),
      category |-> Str("SOFT_DECLINE"),
      translations |-> Obj([
        ja |-> Obj([
          description |-> Str("\\u30ab\\u30fc\\u30c9\\u306e\\u8cfc\\u5165\\u306b\\u5fc5\\u8981\\u306a\\u8cc7\\u91d1\\u304c\\u4e0d\\u8db3\\u3057\\u3066\\u3044\\u307e\\u3059\\u3002"),
          nextUserAction |-> Str("\\u5225\\u306e\\u304a\\u652f\\u6255\\u3044\\u65b9\\u6cd5\\u3092\\u4f7f\\u7528\\u3057\\u3066\\u3082\\u3046\\u4e00\\u5ea6\\u304a\\u8a66\\u3057\\u304f\\u3060\\u3055\\u3044\\u3002")
        ])
      ])
    ]),
    invalid_account |-> Obj([
      description |-> Str("The card, or account the card is connected to, is invalid."),
      nextSteps |-> Str("The customer needs to contact their card issuer to check that the card is working correctly."),
      nextUserAction |-> Str("Please contact your card issuer for more information."),
      category |-> Str("HARD_DECLINE"),
      translations |-> Obj([
        ja |-> Obj([
          description |-> Str("\\u30ab\\u30fc\\u30c9\\u3001\\u307e\\u305f\\u306f\\u30ab\\u30fc\\u30c9\\u304c\\u63a5\\u7d9a\\u3055\\u308c\\u3066\\u3044\\u308b\\u30a2\\u30ab\\u30a6\\u30f3\\u30c8\\u304c\\u7121\\u52b9\\u3067\\u3059\\u3002"),
          nextUserAction |-> Str("\\u8a73\\u3057\\u304f\\u306f\\u30ab\\u30fc\\u30c9\\u767a\\u884c\\u4f1a\\u793e\\u306b\\u304a\\u554f\\u3044\\u5408\\u308f\\u305b\\u304f\\u3060\\u3055\\u3044\\u3002")
        ])
      ])
    ]),
    invalid_amount |-> Obj([
      description |-> Str("The payment amount is invalid, or exceeds the amount that is allowed."),
      nextSteps |-> Str("If the amount appears to be correct, the customer needs to check with their card issuer that they can make purchases of that amount."),
      nextUserAction |-> Str("Please contact your card issuer for more information."),
      category |-> Str("SOFT_DECLINE"),
      translations |-> Obj([
        ja |-> Obj([
          description |-> Str("\\u652f\\u6255\\u3044\\u91d1\\u984d\\u304c\\u7121\\u52b9\\u3067\\u3042\\u308b\\u304b\\u3001\\u8a31\\u53ef\\u3055\\u308c\\u3066\\u3044\\u308b\\u91d1\\u984d\\u3092\\u8d85\\u3048\\u3066\\u3044\\u307e\\u3059\\u3002"),
          nextUserAction |-> Str("\\u8a73\\u3057\\u304f\\u306f\\u30ab\\u30fc\\u30c9\\u767a\\u884c\\u4f1a\\u793e\\u306b\\u304a\\u554f\\u3044\\u5408\\u308f\\u305b\\u304f\\u3060\\u3055\\u3044\\u3002")
        ])
      ])
    ]),
    invalid_cvc |-> Obj([
      description |-> Str("The CVC number is incorrect."),
      nextSteps |-> Str("The customer should try again using the correct CVC."),
      nextUserAction |-> Str("Please try again using the correct CVC."),
      category |-> Str("HARD_DECLINE"),
      translations |-> Obj([
        ja |-> Obj([
          description |-> Str("CVC\\u756a\\u53f7\\u304c\\u6b63\\u3057\\u304f\\u3042\\u308a\\u307e\\u305b\\u3093\\u3002"),
          nextUserAction |-> Str("\\u6b63\\u3057\\u3044CVC\\u3092\\u4f7f\\u7528\\u3057\\u3066\\u3082\\u3046\\u4e00\\u5ea6\\u3084\\u308a\\u76f4\\u3057\\u3066\\u304f\\u3060\\u3055\\u3044\\u3002")
        ])
      ])
    ]),
    invalid_expiry_year |-> Obj([
      description |-> Str("The expiration year invalid."),
      nextSteps |-> Str("The customer should try again using the correct expiration date."),
      nextUserAction |-> Str("Please try again using the correct expiration date."),
      category |-> Str("HARD_DECLINE"),
      translations |-> Obj([
        ja |-> Obj([
          description |-> Str("\\u6709\\u52b9\\u671f\\u9650\\u304c\\u7121\\u52b9\\u3067\\u3059\\u3002"),
          nextUserAction |-> Str("\\u6b63\\u3057\\u3044\\u6709\\u52b9\\u671f\\u9650\\u3092\\u5165\\u529b\\u3057\\u3066\\u3082\\u3046\\u4e00\\u5ea6\\u304a\\u8a66\\u3057\\u304f\\u3060\\u3055\\u3044\\u3002")
        ])
      ])
    ]),
    invalid_number |-> Obj([
      description |-> Str("The card number is incorrect."),
      nextSteps |-> Str("The customer should try again using the correct card number."),
      nextUserAction |-> Str("Please try again using the correct card number."),
      category |-> Str("HARD_DECLINE"),
      translations |-> Obj([
        ja |-> Obj([
          description |-> Str("\\u30ab\\u30fc\\u30c9\\u756a\\u53f7\\u304c\\u6b63\\u3057\\u304f\\u3042\\u308a\\u307e\\u305b\\u3093\\u3002"),
          nextUserAction |-> Str("\\u6b63\\u3057\\u3044\\u30ab\\u30fc\\u30c9\\u756a\\u53f7\\u3092\\u4f7f\\u7528\\u3057\\u3066\\u3082\\u3046\\u4e00\\u5ea6\\u3084\\u308a\\u76f4\\u3057\\u3066\\u304f\\u3060\\u3055\\u3044\\u3002")
        ])
      ])
    ]),
    invalid_pin |-> Obj([
      description |-> Str("The PIN entered is incorrect. This decline code only applies to payments made with a card reader."),
      nextSteps |-> Str("The customer should try again using the correct PIN."),
      nextUserAction |-> Str("Please try again using the correct card PIN."),
      category |-> Str("HARD_DECLINE"),
      translations |-> Obj([
        ja |-> Obj([
          description |-> Str("PIN\\u30b3\\u30fc\\u30c9\\u304c\\u6b63\\u3057\\u304f\\u3042\\u308a\\u307e\\u305b\\u3093\\u3002"),
          nextUserAction |-> Str("\\u6b63\\u3057\\u3044PIN\\u30b3\\u30fc\\u30c9\\u3092\\u4f7f\\u7528\\u3057\\u3066\\u3082\\u3046\\u4e00\\u5ea6\\u3084\\u308a\\u76f4\\u3057\\u3066\\u304f\\u3060\\u3055\\u3044\\u3002")
        ])
      ])
    ]),
    issuer_not_available |-> Obj([
      description |-> Str("The card issuer could not be reached, so the payment could not be authorized."),
      nextSteps |-> Str("The payment should be attempted again. If it still cannot be processed, the customer needs to contact their card issuer."),
      nextUserAction |-> Str("Please try again. If it still cannot be processed, the please contact your card issuer."),
      category |-> Str("SOFT_DECLINE"),
      translations |-> Obj([
        ja |-> Obj([
          description |-> Str("\\u30ab\\u30fc\\u30c9\\u767a\\u884c\\u8005\\u306b\\u9023\\u7d61\\u3067\\u304d\\u306a\\u304b\\u3063\\u305f\\u305f\\u3081\\u3001\\u652f\\u6255\\u3044\\u3092\\u627f\\u8a8d\\u3067\\u304d\\u307e\\u305b\\u3093\\u3067\\u3057\\u305f\\u3002"),
          nextUserAction |-> Str("\\u3082\\u3046\\u4e00\\u5ea6\\u3084\\u308a\\u76f4\\u3057\\u3066\\u304f\\u3060\\u3055\\u3044\\u3002\\u305d\\u308c\\u3067\\u3082\\u51e6\\u7406\\u3067\\u304d\\u306a\\u3044\\u5834\\u5408\\u306f\\u3001\\u30ab\\u30fc\\u30c9\\u767a\\u884c\\u4f1a\\u793e\\u306b\\u304a\\u554f\\u3044\\u5408\\u308f\\u305b\\u304f\\u3060\\u3055\\u3044\\u3002")
        ])
      ])
    ]),
    lost_card |-> Obj([
      description |-> Str("The payment has been declined because the card is reported lost."),
      nextSteps |-> Str("The specific reason for the decline should not be reported to the customer. Instead, it needs to be presented as a generic decline."),
      nextUserAction |-> Str("Please contact your card issuer for more information."),
      category |-> Str("HARD_DECLINE"),
      translations |-> Obj([
        ja |-> Obj([
          description |-> Str("\\u30ab\\u30fc\\u30c9\\u306f\\u672a\\u77e5\\u306e\\u7406\\u7531\\u3067\\u62d2\\u5426\\u3055\\u308c\\u307e\\u3057\\u305f\\u3002"),
          nextUserAction |-> Str("\\u8a73\\u3057\\u304f\\u306f\\u30ab\\u30fc\\u30c9\\u767a\\u884c\\u4f1a\\u793e\\u306b\\u304a\\u554f\\u3044\\u5408\\u308f\\u305b\\u304f\\u3060\\u3055\\u3044\\u3002")
        ])
      ])
    ]),
    merchant_blacklist |-> Obj([
      description |-> Str("The payment has been declined because it matches a value on the Stripe user's blocklist."),
      nextSteps |-> Str("Do not report more detailed information to your customer. Instead, present as you would the generic_decline described above."),
      nextUserAction |-> Str("Please contact your card issuer for more information."),
      category |-> Str("HARD_DECLINE"),
      translations |-> Obj([
        ja |-> Obj([
          description |-> Str("\\u30ab\\u30fc\\u30c9\\u306f\\u672a\\u77e5\\u306e\\u7406\\u7531\\u3067\\u62d2\\u5426\\u3055\\u308c\\u307e\\u3057\\u305f\\u3002"),
          nextUserAction |-> Str("\\u8a73\\u3057\\u304f\\u306f\\u30ab\\u30fc\\u30c9\\u767a\\u884c\\u4f1a\\u793e\\u306b\\u304a\\u554f\\u3044\\u5408\\u308f\\u305b\\u304f\\u3060\\u3055\\u3044\\u3002")
        ])
      ])
    ]),
    new_account_information_available |-> Obj([
      description |-> Str("The card, or account the card is connected to, is invalid."),
      nextSteps |-> Str("The customer needs to contact their card issuer for more information."),
      nextUserAction |-> Str("Please contact your card issuer for more information."),
      category |-> Str("SOFT_DECLINE"),
      translations |-> Obj([
        ja |-> Obj([
          description |-> Str("\\u30ab\\u30fc\\u30c9\\u3001\\u307e\\u305f\\u306f\\u30ab\\u30fc\\u30c9\\u304c\\u63a5\\u7d9a\\u3055\\u308c\\u3066\\u3044\\u308b\\u30a2\\u30ab\\u30a6\\u30f3\\u30c8\\u304c\\u7121\\u52b9\\u3067\\u3059\\u3002"),
          nextUserAction |-> Str("\\u8a73\\u3057\\u304f\\u306f\\u30ab\\u30fc\\u30c9\\u767a\\u884c\\u4f1a\\u793e\\u306b\\u304a\\u554f\\u3044\\u5408\\u308f\\u305b\\u304f\\u3060\\u3055\\u3044\\u3002")
        ])
      ])
    ]),
    no_action_taken |-> Obj([
      description |-> Str("The card has been declined for an unknown reason."),
      nextSteps |-> Str("The customer should contact their card issuer for more information."),
      nextUserAction |-> Str("Please contact your card issuer for more information."),
      category |-> Str("SOFT_DECLINE"),
      translations |-> Obj([
        ja |-> Obj([
          description |-> Str("\\u30ab\\u30fc\\u30c9\\u306f\\u672a\\u77e5\\u306e\\u7406\\u7531\\u3067\\u62d2\\u5426\\u3055\\u308c\\u307e\\u3057\\u305f\\u3002"),
          nextUserAction |-> Str("\\u8a73\\u3057\\u304f\\u306f\\u30ab\\u30fc\\u30c9\\u767a\\u884c\\u4f1a\\u793e\\u306b\\u304a\\u554f\\u3044\\u5408\\u308f\\u305b\\u304f\\u3060\\u3055\\u3044\\u3002")
        ])
      ])
    ]),
    not_permitted |-> Obj([
      description |-> Str("The payment is not permitted."),
      nextSteps |-> Str("The customer needs to contact their card issuer for more information."),
      nextUserAction |-> Str("Please contact your card issuer for more information."),
      category |-> Str("HARD_DECLINE"),
      translations |-> Obj([
        ja |-> Obj([
          description |-> Str("\\u652f\\u6255\\u3044\\u306f\\u8a31\\u53ef\\u3055\\u308c\\u3066\\u3044\\u307e\\u305b\\u3093\\u3002"),
          nextUserAction |-> Str("\\u8a73\\u3057\\u304f\\u306f\\u30ab\\u30fc\\u30c9\\u767a\\u884c\\u4f1a\\u793e\\u306b\\u304a\\u554f\\u3044\\u5408\\u308f\\u305b\\u304f\\u3060\\u3055\\u3044\\u3002")
        ])
      ])
    ]),
    pickup_card |-> Obj([
      description |-> Str("The card cannot be used to make this payment (it is possible it has been reported lost or stolen)."),
      nextSteps |-> Str("The customer needs to contact their card issuer for more information."),
      nextUserAction |-> Str("Please contact your card issuer for more information."),
      category |-> Str("HARD_DECLINE"),
      translations |-> Obj([
        ja |-> Obj([
          description |-> Str("\\u30ab\\u30fc\\u30c9\\u3067\\u3053\\u306e\\u652f\\u6255\\u3044\\u3092\\u884c\\u3046\\u3053\\u3068\\u306f\\u3067\\u304d\\u307e\\u305b\\u3093\\uff08\\u7d1b\\u5931\\u307e\\u305f\\u306f\\u76d7\\u96e3\\u306b\\u3042\\u3063\\u305f\\u3068\\u5831\\u544a\\u3055\\u308c\\u3066\\u3044\\u308b\\u53ef\\u80fd\\u6027\\u304c\\u3042\\u308a\\u307e\\u3059\\uff09\\u3002"),
          nextUserAction |-> Str("\\u8a73\\u3057\\u304f\\u306f\\u30ab\\u30fc\\u30c9\\u767a\\u884c\\u4f1a\\u793e\\u306b\\u304a\\u554f\\u3044\\u5408\\u308f\\u305b\\u304f\\u3060\\u3055\\u3044\\u3002")
        ])
      ])
    ]),
    pin_try_exceeded |-> Obj([
      description |-> Str("The allowable number of PIN tries has been exceeded."),
      nextSteps |-> Str("The customer must use another card or method of payment."),
      nextUserAction |-> Str("Please use another card or method of payment."),
      category |-> Str("SOFT_DECLINE"),
      translations |-> Obj([
        ja |-> Obj([
          description |-> Str("PIN\\u8a66\\u884c\\u56de\\u6570\\u306e\\u4e0a\\u9650\\u3092\\u8d85\\u3048\\u307e\\u3057\\u305f\\u3002"),
          nextUserAction |-> Str("\\u5225\\u306e\\u30ab\\u30fc\\u30c9\\u307e\\u305f\\u306f\\u304a\\u652f\\u6255\\u3044\\u65b9\\u6cd5\\u3092\\u3054\\u5229\\u7528\\u304f\\u3060\\u3055\\u3044\\u3002")
        ])
      ])
    ]),
    processing_error |-> Obj([
      description |-> Str("An error occurred while processing the card."),
      nextSteps |-> Str("The payment should be attempted again. If it still cannot be processed, try again later."),
      nextUserAction |-> Str("Please try again. If it still cannot be processed, the please contact your card issuer."),
      category |-> Str("SOFT_DECLINE"),
      translations |-> Obj([
        ja |-> Obj([
          description |-> Str("\\u30ab\\u30fc\\u30c9\\u306e\\u51e6\\u7406\\u4e2d\\u306b\\u30a8\\u30e9\\u30fc\\u304c\\u767a\\u751f\\u3057\\u307e\\u3057\\u305f\\u3002"),
          nextUserAction |-> Str("\\u3082\\u3046\\u4e00\\u5ea6\\u3084\\u308a\\u76f4\\u3057\\u3066\\u304f\\u3060\\u3055\\u3044\\u3002\\u305d\\u308c\\u3067\\u3082\\u51e6\\u7406\\u3067\\u304d\\u306a\\u3044\\u5834\\u5408\\u306f\\u3001\\u30ab\\u30fc\\u30c9\\u767a\\u884c\\u4f1a\\u793e\\u306b\\u304a\\u554f\\u3044\\u5408\\u308f\\u305b\\u304f\\u3060\\u3055\\u3044\\u3002")
        ])
      ])
    ]),
    reenter_transaction |-> Obj([
      description |-> Str("The payment could not be processed by the issuer for an unknown reason."),
      nextSteps |-> Str("The payment should be attempted again. If it still cannot be processed, the customer needs to contact their card issuer."),
      nextUserAction |-> Str("Please try again. If it still cannot be processed, the please contact your card issuer."),
      category |-> Str("SOFT_DECLINE"),
      translations |-> Obj([
        ja |-> Obj([
          description |-> Str("\\u539f\\u56e0\\u4e0d\\u660e\\u306e\\u305f\\u3081\\u3001\\u767a\\u884c\\u8005\\u304c\\u652f\\u6255\\u3044\\u3092\\u51e6\\u7406\\u3067\\u304d\\u307e\\u305b\\u3093\\u3067\\u3057\\u305f\\u3002"),
          nextUserAction |-> Str("\\u3082\\u3046\\u4e00\\u5ea6\\u3084\\u308a\\u76f4\\u3057\\u3066\\u304f\\u3060\\u3055\\u3044\\u3002\\u305d\\u308c\\u3067\\u3082\\u51e6\\u7406\\u3067\\u304d\\u306a\\u3044\\u5834\\u5408\\u306f\\u3001\\u30ab\\u30fc\\u30c9\\u767a\\u884c\\u4f1a\\u793e\\u306b\\u304a\\u554f\\u3044\\u5408\\u308f\\u305b\\u304f\\u3060\\u3055\\u3044\\u3002")
        ])
      ])
    ]),
    restricted_card |-> Obj([
      description |-> Str("The card cannot be used to make this payment (it is possible it has been reported lost or stolen)."),
      nextSteps |-> Str("The customer needs to contact their card issuer for more information."),
      nextUserAction |-> Str("Please contact your card issuer for more information."),
      category |-> Str("HARD_DECLINE"),
      translations |-> Obj([
        ja |-> Obj([
          description |-> Str("\\u30ab\\u30fc\\u30c9\\u3067\\u3053\\u306e\\u652f\\u6255\\u3044\\u3092\\u884c\\u3046\\u3053\\u3068\\u306f\\u3067\\u304d\\u307e\\u305b\\u3093\\uff08\\u7d1b\\u5931\\u307e\\u305f\\u306f\\u76d7\\u96e3\\u306b\\u3042\\u3063\\u305f\\u3068\\u5831\\u544a\\u3055\\u308c\\u3066\\u3044\\u308b\\u53ef\\u80fd\\u6027\\u304c\\u3042\\u308a\\u307e\\u3059\\uff09\\u3002"),
          nextUserAction |-> Str("\\u8a73\\u3057\\u304f\\u306f\\u30ab\\u30fc\\u30c9\\u767a\\u884c\\u4f1a\\u793e\\u306b\\u304a\\u554f\\u3044\\u5408\\u308f\\u305b\\u304f\\u3060\\u3055\\u3044\\u3002")
        ])
      ])
    ]),
    revocation_of_all_authorizations |-> Obj([
      description |-> Str("The card has been declined for an unknown reason."),
      nextSteps |-> Str("The customer should contact their card issuer for more information."),
      nextUserAction |-> Str("Please contact your card issuer for more information."),
      category |-> Str("HARD_DECLINE"),
      translations |-> Obj([
        ja |-> Obj([
          description |-> Str("\\u30ab\\u30fc\\u30c9\\u306f\\u672a\\u77e5\\u306e\\u7406\\u7531\\u3067\\u62d2\\u5426\\u3055\\u308c\\u307e\\u3057\\u305f\\u3002"),
          nextUserAction |-> Str("\\u8a73\\u3057\\u304f\\u306f\\u30ab\\u30fc\\u30c9\\u767a\\u884c\\u4f1a\\u793e\\u306b\\u304a\\u554f\\u3044\\u5408\\u308f\\u305b\\u304f\\u3060\\u3055\\u3044\\u3002")
        ])
      ])
    ]),
    revocation_of_authorization |-> Obj([
      description |-> Str("The card has been declined for an unknown reason."),
      nextSteps |-> Str("The customer should contact their card issuer for more information."),
      nextUserAction |-> Str("Please contact your card issuer for more information."),
      category |-> Str("HARD_DECLINE"),
      translations |-> Obj([
        ja |-> Obj([
          description |-> Str("\\u30ab\\u30fc\\u30c9\\u306f\\u672a\\u77e5\\u306e\\u7406\\u7531\\u3067\\u62d2\\u5426\\u3055\\u308c\\u307e\\u3057\\u305f\\u3002"),
          nextUserAction |-> Str("\\u8a73\\u3057\\u304f\\u306f\\u30ab\\u30fc\\u30c9\\u767a\\u884c\\u4f1a\\u793e\\u306b\\u304a\\u554f\\u3044\\u5408\\u308f\\u305b\\u304f\\u3060\\u3055\\u3044\\u3002")
        ])
      ])
    ]),
    security_violation |-> Obj([
      description |-> Str("The card has been declined for an unknown reason."),
      nextSteps |-> Str("The customer needs to contact their card issuer for more information."),
      nextUserAction |-> Str("Please contact your card issuer for more information."),
      category |-> Str("HARD_DECLINE"),
      translations |-> Obj([
        ja |-> Obj([
          description |-> Str("\\u30ab\\u30fc\\u30c9\\u306f\\u672a\\u77e5\\u306e\\u7406\\u7531\\u3067\\u62d2\\u5426\\u3055\\u308c\\u307e\\u3057\\u305f\\u3002"),
          nextUserAction |-> Str("\\u8a73\\u3057\\u304f\\u306f\\u30ab\\u30fc\\u30c9\\u767a\\u884c\\u4f1a\\u793e\\u306b\\u304a\\u554f\\u3044\\u5408\\u308f\\u305b\\u304f\\u3060\\u3055\\u3044\\u3002")
        ])
      ])
    ]),
    service_not_allowed |-> Obj([
      description |-> Str("The card has been declined for an unknown reason."),
      nextSteps |-> Str("The customer should contact their card issuer for more information."),
      nextUserAction |-> Str("Please contact your card issuer for more information."),
      category |-> Str("HARD_DECLINE"),
      translations |-> Obj([
        ja |-> Obj([
          description |-> Str("\\u30ab\\u30fc\\u30c9\\u306f\\u672a\\u77e5\\u306e\\u7406\\u7531\\u3067\\u62d2\\u5426\\u3055\\u308c\\u307e\\u3057\\u305f\\u3002"),
          nextUserAction |-> Str("\\u8a73\\u3057\\u304f\\u306f\\u30ab\\u30fc\\u30c9\\u767a\\u884c\\u4f1a\\u793e\\u306b\\u304a\\u554f\\u3044\\u5408\\u308f\\u305b\\u304f\\u3060\\u3055\\u3044\\u3002")
        ])
      ])
    ]),
    stolen_card |-> Obj([
      description |-> Str("The payment has been declined because the card is reported stolen."),
      nextSteps |-> Str("The specific reason for the decline should not be reported to the customer. Instead, it needs to be presented as a generic decline."),
      nextUserAction |-> Str("Please contact your card issuer for more information."),
      category |-> Str("HARD_DECLINE"),
      translations |-> Obj([
        ja |-> Obj([
          description |-> Str("\\u30ab\\u30fc\\u30c9\\u306f\\u672a\\u77e5\\u306e\\u7406\\u7531\\u3067\\u62d2\\u5426\\u3055\\u308c\\u307e\\u3057\\u305f\\u3002"),
          nextUserAction |-> Str("\\u8a73\\u3057\\u304f\\u306f\\u30ab\\u30fc\\u30c9\\u767a\\u884c\\u4f1a\\u793e\\u306b\\u304a\\u554f\\u3044\\u5408\\u308f\\u305b\\u304f\\u3060\\u3055\\u3044\\u3002")
        ])
      ])
    ]),
    stop_payment_order |-> Obj([
      description |-> Str("The card has been declined for an unknown reason."),
      nextSteps |-> Str("The customer should contact their card issuer for more information."),
      nextUserAction |-> Str("Please contact your card issuer for more information."),
      category |-> Str("HARD_DECLINE"),
      translations |-> Obj([
        ja |-> Obj([
          description |-> Str("\\u30ab\\u30fc\\u30c9\\u306f\\u672a\\u77e5\\u306e\\u7406\\u7531\\u3067\\u62d2\\u5426\\u3055\\u308c\\u307e\\u3057\\u305f\\u3002"),
          nextUserAction |-> Str("\\u8a73\\u3057\\u304f\\u306f\\u30ab\\u30fc\\u30c9\\u767a\\u884c\\u4f1a\\u793e\\u306b\\u304a\\u554f\\u3044\\u5408\\u308f\\u305b\\u304f\\u3060\\u3055\\u3044\\u3002")
        ])
      ])
    ]),
    testmode_decline |-> Obj([
      description |-> Str("A Stripe test card number was used."),
      nextSteps |-> Str("A genuine card must be used to make a payment."),
      nextUserAction |-> Str("A genuine card must be used to make a payment."),
      category |-> Str("HARD_DECLINE"),
      translations |-> Obj([
        ja |-> Obj([
          description |-> Str("Stripe\\u30c6\\u30b9\\u30c8\\u30ab\\u30fc\\u30c9\\u756a\\u53f7\\u3092\\u4f7f\\u7528\\u3057\\u307e\\u3057\\u305f\\u3002"),
          nextUserAction |-> Str("\\u652f\\u6255\\u3044\\u306b\\u306f\\u672c\\u7269\\u306e\\u30ab\\u30fc\\u30c9\\u3092\\u4f7f\\u7528\\u3059\\u308b\\u5fc5\\u8981\\u304c\\u3042\\u308a\\u307e\\u3059\\u3002")
        ])
      ])
    ]),
    transaction_not_allowed |-> Obj([
      description |-> Str("The card has been declined for an unknown reason."),
      nextSteps |-> Str("The customer needs to contact their card issuer for more information."),
      nextUserAction |-> Str("Please contact your card issuer for more information."),
      category |-> Str("HARD_DECLINE"),
      translations |-> Obj([
        ja |-> Obj([
          description |-> Str("\\u30ab\\u30fc\\u30c9\\u306f\\u672a\\u77e5\\u306e\\u7406\\u7531\\u3067\\u62d2\\u5426\\u3055\\u308c\\u307e\\u3057\\u305f\\u3002"),
          nextUserAction |-> Str("\\u8a73\\u3057\\u304f\\u306f\\u30ab\\u30fc\\u30c9\\u767a\\u884c\\u4f1a\\u793e\\u306b\\u304a\\u554f\\u3044\\u5408\\u308f\\u305b\\u304f\\u3060\\u3055\\u3044\\u3002")
        ])
      ])
    ]),
    try_again_later |-> Obj([
      description |-> Str("The card has been declined for an unknown reason."),
      nextSteps |-> Str("Ask the customer to attempt the payment again. If subsequent payments are declined, the customer should contact their card issuer for more information."),
      nextUserAction |-> Str("Please try again. If it still cannot be processed, the please contact your card issuer."),
      category |-> Str("SOFT_DECLINE"),
      translations |-> Obj([
        ja |-> Obj([
          description |-> Str("\\u30ab\\u30fc\\u30c9\\u306f\\u672a\\u77e5\\u306e\\u7406\\u7531\\u3067\\u62d2\\u5426\\u3055\\u308c\\u307e\\u3057\\u305f\\u3002"),
          nextUserAction |-> Str("\\u3082\\u3046\\u4e00\\u5ea6\\u3084\\u308a\\u76f4\\u3057\\u3066\\u304f\\u3060\\u3055\\u3044\\u3002\\u305d\\u308c\\u3067\\u3082\\u51e6\\u7406\\u3067\\u304d\\u306a\\u3044\\u5834\\u5408\\u306f\\u3001\\u30ab\\u30fc\\u30c9\\u767a\\u884c\\u4f1a\\u793e\\u306b\\u304a\\u554f\\u3044\\u5408\\u308f\\u305b\\u304f\\u3060\\u3055\\u3044\\u3002")
        ])
      ])
    ]),
    withdrawal_count_limit_exceeded |-> Obj([
      description |-> Str("The customer has exceeded the balance or credit limit available on their card."),
      nextSteps |-> Str("The customer should use an alternative payment method."),
      nextUserAction |-> Str("Please use another card or contact your card issuer for more information."),
      category |-> Str("SOFT_DECLINE"),
      translations |-> Obj([
        ja |-> Obj([
          description |-> Str("\\u3053\\u306e\\u30ab\\u30fc\\u30c9\\u306e\\u6b8b\\u9ad8\\u307e\\u305f\\u306f\\u30af\\u30ec\\u30b8\\u30c3\\u30c8\\u5236\\u9650\\u3092\\u8d85\\u3048\\u307e\\u3057\\u305f\\u3002"),
          nextUserAction |-> Str("\\u5225\\u306e\\u30ab\\u30fc\\u30c9\\u3092\\u4f7f\\u7528\\u3059\\u308b\\u304b\\u3001\\u30ab\\u30fc\\u30c9\\u767a\\u884c\\u4f1a\\u793e\\u306b\\u304a\\u554f\\u3044\\u5408\\u308f\\u305b\\u304f\\u3060\\u3055\\u3044\\u3002")
        ])
      ])
    ])
  ])

\* The keys of DECLINE_CODES in the order the literal writes them.
DECLINE_CODES_KEYS ==
  <<"approve_with_id", "call_issuer", "card_not_supported",
     "card_velocity_exceeded", "currency_not_supported", "do_not_honor",
     "do_not_try_again", "duplicate_transaction", "expired_card",
     "fraudulent", "generic_decline", "incorrect_number", "incorrect_cvc",
     "incorrect_pin", "incorrect_zip", "insufficient_funds",
     "invalid_account", "invalid_amount", "invalid_cvc",
     "invalid_expiry_year", "invalid_number", "invalid_pin",
     "issuer_not_available", "lost_card", "merchant_blacklist",
     "new_account_information_available", "no_action_taken", "not_permitted",
     "pickup_card", "pin_try_exceeded", "processing_error",
     "reenter_transaction", "restricted_card",
     "revocation_of_all_authorizations", "revocation_of_authorization",
     "security_violation", "service_not_allowed", "stolen_card",
     "stop_payment_order", "testmode_decline", "transaction_not_allowed",
     "try_again_later", "withdrawal_count_limit_exceeded" >>

(***************************************************************************)
(* index.ts                                                                *)
(***************************************************************************)
isValidDeclineCode(code) == Bool(HasProperty(table, code.str))

\* getDeclineDescription returning a trimmed copy of the record.
getDeclineDescription_withoutTranslations(declineCode) ==
  IF Falsy(declineCode) \/ isValidDeclineCode(declineCode) = Bool(FALSE)
  THEN Obj([docVersion |-> DOC_VERSION, code |-> Obj(EmptyProps)])
  ELSE LET code == Get(table, declineCode.str)
       IN  Obj([docVersion |-> DOC_VERSION,
                code |-> IF code.type = "object"
                         THEN Obj([k \in DOMAIN code.props \ {"translations"}
                                     |-> code.props[k]])
                         ELSE code])

getDeclineDescription(declineCode) ==
  IF Falsy(declineCode) \/ isValidDeclineCode(declineCode) = Bool(FALSE)
  THEN Obj([docVersion |-> DOC_VERSION, code |-> Obj(EmptyProps)])
  ELSE LET code == Get(table, declineCode.str)
       IN  Obj([docVersion |-> DOC_VERSION, code |-> code])

\* getDeclineMessage answering an unknown code with an empty string.
getDeclineMessage_emptyForUnknown(declineCode, localeArg) ==
  LET locale == Default(localeArg, Str("en"))
  IN  IF isValidDeclineCode(declineCode) = Bool(FALSE) THEN Str("")
      ELSE LET codeInfo == Get(table, declineCode.str)
               message == IF StrictEquals(locale, Str("en"))
                          THEN Get(codeInfo, "nextUserAction")
                          ELSE OptionalGet(
                                 OptionalGet(Get(codeInfo, "translations"),
                                             PropertyKey(locale)),
                                 "nextUserAction")
           IN  IF message = Undefined THEN Str("") ELSE message

\* getDeclineMessage falling back to the English text.
getDeclineMessage_englishFallback(declineCode, localeArg) ==
  LET locale == Default(localeArg, Str("en"))
  IN  IF isValidDeclineCode(declineCode) = Bool(FALSE) THEN Undefined
      ELSE LET codeInfo == Get(table, declineCode.str)
               translated == OptionalGet(
                               OptionalGet(Get(codeInfo, "translations"),
                                           PropertyKey(locale)),
                               "nextUserAction")
           IN  IF StrictEquals(locale, Str("en")) \/ translated = Undefined
               THEN Get(codeInfo, "nextUserAction")
               ELSE translated

\* getDeclineMessage whose default locale is 'ja'.
getDeclineMessage_defaultJa(declineCode, localeArg) ==
  LET locale == Default(localeArg, Str("ja"))
  IN  IF isValidDeclineCode(declineCode) = Bool(FALSE) THEN Undefined
      ELSE LET codeInfo == Get(table, declineCode.str)
           IN  IF StrictEquals(locale, Str("en"))
               THEN Get(codeInfo, "nextUserAction")
               ELSE OptionalGet(
                      OptionalGet(Get(codeInfo, "translations"),
                                  PropertyKey(locale)),
                      "nextUserAction")

\* getDeclineMessage reading nextUserAction from `translations` itself, not
\* from the translation of the locale.
getDeclineMessage_skipsLocale(declineCode, localeArg) ==
  LET locale == Default(localeArg, Str("en"))
  IN  IF isValidDeclineCode(declineCode) = Bool(FALSE) THEN Undefined
      ELSE LET codeInfo == Get(table, declineCode.str)
           IN  IF StrictEquals(locale, Str("en"))
               THEN Get(codeInfo, "nextUserAction")
               ELSE OptionalGet(Get(codeInfo, "translations"),
                                "nextUserAction")

getDeclineMessage(declineCode, localeArg) ==
  LET locale == Default(localeArg, Str("en"))
  IN  IF isValidDeclineCode(declineCode) = Bool(FALSE) THEN Undefined
      ELSE LET codeInfo == Get(table, declineCode.str)
           IN  IF StrictEquals(locale, Str("en"))
               THEN Get(codeInfo, "nextUserAction")
               ELSE OptionalGet(
                      OptionalGet(Get(codeInfo, "translations"),
                                  PropertyKey(locale)),
                      "nextUserAction")

\* getDeclineCategory treating every unknown code as a soft decline.
getDeclineCategory_softByDefault(code) ==
  IF isValidDeclineCode(code) = Bool(FALSE) THEN Str("SOFT_DECLINE")
  ELSE LET category == Get(Get(table, code.str), "category")
       IN  IF category = Undefined THEN Str("SOFT_DECLINE") ELSE category

getDeclineCategory(code) ==
  IF isValidDeclineCode(code) = Bool(FALSE) THEN Undefined
  ELSE Get(Get(table, code.str), "category")

\* isHardDecline written as `category && category === 'HARD_DECLINE'`.
isHardDecline_passesUndefined(code) ==
  LET category == getDeclineCategory(code)
  IN  IF category = Undefined THEN Undefined
      ELSE Bool(StrictEquals(category, Str("HARD_DECLINE")))

isHardDecline(code) ==
  Bool(StrictEquals(getDeclineCategory(code), Str("HARD_DECLINE")))

\* isSoftDecline comparing with a misspelt tag.
isSoftDecline_misspeltTag(code) ==
  Bool(StrictEquals(getDeclineCategory(code), Str("SOFT_DECLINED")))

isSoftDecline(code) ==
  Bool(StrictEquals(getDeclineCategory(code), Str("SOFT_DECLINE")))

\* getMessageFromStripeError showing the gateway's message of a card error
\* that carries no decline code.
getMessageFromStripeError_messageFallback(error, localeArg) ==
  LET locale == Default(localeArg, Str("en"))
  IN  IF Falsy(Get(error, "decline_code"))
      THEN IF StrictEquals(Get(error, "type"), Str("StripeCardError"))
           THEN Get(error, "message")
           ELSE Undefined
      ELSE getDeclineMessage(Get(error, "decline_code"), locale)

\* getMessageFromStripeError answering card errors only.
getMessageFromStripeError_cardErrorsOnly(error, localeArg) ==
  LET locale == Default(localeArg, Str("en"))
  IN  IF Falsy(Get(error, "decline_code"))
         \/ ~StrictEquals(Get(error, "type"), Str("StripeCardError"))
      THEN Undefined
      ELSE getDeclineMessage(Get(error, "decline_code"), locale)

getMessageFromStripeError(error, localeArg) ==
  LET locale == Default(localeArg, Str("en"))
  IN  IF Falsy(Get(error, "decline_code")) THEN Undefined
      ELSE getDeclineMessage(Get(error, "decline_code"), locale)


\* The loop of formatDeclineMessage from the i-th entry on: each entry
\* replaces its placeholder in what the entries before it left.
RECURSIVE ReplaceVariables(_, _, _)
ReplaceVariables(formattedMessage, entries, i) ==
  IF i > Len(entries) THEN Str(formattedMessage)
  ELSE LET key == entries[i][1]
           value == entries[i][2]
           placeholder == "\\{\\{" \o key \o "\\}\\}"
           replaced == ReplaceAll(formattedMessage, placeholder, value.str)
       IN  IF replaced.type = "throw" THEN replaced
           ELSE ReplaceVariables(replaced.str, entries, i + 1)

\* formatDeclineMessage answering undefined when no variables are given.
formatDeclineMessage_requiresVariables(declineCode, localeArg, variables) ==
  LET locale == Default(localeArg, Str("en"))
      baseMessage == getDeclineMessage(declineCode, locale)
  IN  IF Falsy(baseMessage) \/ Falsy(variables) THEN Undefined
      ELSE ReplaceVariables(baseMessage.str, ObjectEntries(variables), 1)

formatDeclineMessage(declineCode, localeArg, variables) ==
  LET locale == Default(localeArg, Str("en"))
      baseMessage == getDeclineMessage(declineCode, locale)
  IN  IF Falsy(baseMessage) THEN Undefined
      ELSE IF Falsy(variables) THEN baseMessage
      ELSE ReplaceVariables(baseMessage.str, ObjectEntries(variables), 1)

\* getDocVersion answering with the year and month only.
getDocVersion_yearAndMonth == Str("2024-12")

getDocVersion == DOC_VERSION

\* An array value.
Array(items) == [type |-> "array", items |-> items]

\* Object.keys(table): the own keys, in the order the literal writes them.
ObjectKeys(obj) ==
  SelectSeq(DECLINE_CODES_KEYS, LAMBDA k : k \in DOMAIN obj.props)

getAllDeclineCodes ==
  LET keys == ObjectKeys(table)
  IN  Array([i \in 1..Len(keys) |-> Str(keys[i])])

(***************************************************************************)
(* Inputs                                                                  *)
(***************************************************************************)
\* The tokens declared as keys of the table literal.
DeclaredTokens == DOMAIN DECLINE_CODES.props

RECURSIVE ToUpperCase(_)
ToUpperCase(s) ==
  IF Len(s) = 0 THEN s
  ELSE LET ch == SubSeq(s, 1, 1)
       IN  (IF ch \in DOMAIN UpperCase THEN UpperCase[ch] ELSE ch)
             \o ToUpperCase(SubSeq(s, 2, Len(s)))

Capitalize(s) == ToUpperCase(SubSeq(s, 1, 1)) \o SubSeq(s, 2, Len(s))

ProperPrefixes(s) == {SubSeq(s, 1, n) : n \in 0..(Len(s) - 1)}

ProperSuffixes(s) == {SubSeq(s, n, Len(s)) : n \in 2..(Len(s) + 1)}

\* Strings that are no token: empty, blank, non-ASCII, unrelated words.
OtherStrings ==
  {"", " ", "  ", "invalid_code", "random_string", "bogus", "\\u30ab\\u30fc\\u30c9",
   "insufficient funds", "insufficient-funds"}

\* Near misses of a token: another case, padding, a proper prefix or suffix.
CaseVariants(s) == {ToUpperCase(s), Capitalize(s)}

Padded(s) == {" " \o s, s \o " ", s \o "\n"}

\* Every string isValidDeclineCode is called with.
ValidationInputs ==
  DeclaredTokens \cup ObjectPrototypeNames \cup OtherStrings
    \cup UNION {ProperPrefixes(s) \cup ProperSuffixes(s) : s \in DeclaredTokens}
    \cup UNION {CaseVariants(s) \cup Padded(s) : s \in DeclaredTokens}

\* Tokens whose near misses the other operations are called with.
SampleTokens == {"insufficient_funds", "fraudulent", "expired_card"}

\* Every code string the other operations are called with.
CodeInputs ==
  DeclaredTokens \cup ObjectPrototypeNames \cup OtherStrings
    \cup UNION {CaseVariants(s) \cup Padded(s) : s \in SampleTokens}
    \cup {"insufficient_fund", "nsufficient_funds", "expired", "card"}

\* type Locale = 'en' | 'ja'
DeclaredLocales == {"en", "ja"}

\* Locale strings a JavaScript caller can pass though the type excludes them.
UndeclaredLocales == {"fr", "EN", "toString", "__proto__"}

\* The locale argument: left out, passed as undefined or null, or a string.
LocaleArgs ==
  {<<>>, <<Undefined>>, <<Null>>}
    \cup {<<Str(l)>> : l \in DeclaredLocales \cup UndeclaredLocales}

\* The variable mappings formatDeclineMessage is called with: plain names,
\* names and values with characters RegExp and replace give a meaning to, a
\* value that is itself a placeholder of another name (in both orders).
VariableMaps ==
  { ObjectLiteral(<< >>),
    ObjectLiteral(<< <<"merchantName", Str("Acme Store")>> >>),
    ObjectLiteral(<< <<"merchantName", Str("Acme Store")>>,
                     <<"supportEmail", Str("support@acme.com")>> >>),
    ObjectLiteral(<< <<"name", Str("")>> >>),
    ObjectLiteral(<< <<"name", Str("$&")>> >>),
    ObjectLiteral(<< <<"name", Str("US$$")>> >>),
    ObjectLiteral(<< <<"n.me", Str("X")>> >>),
    ObjectLiteral(<< <<"(", Str("X")>> >>),
    ObjectLiteral(<< <<"k\\}\\}|a|\\{\\{k", Str("X")>> >>),
    ObjectLiteral(<< <<"a", Str("{{b}}")>>, <<"b", Str("x")>> >>),
    ObjectLiteral(<< <<"b", Str("x")>>, <<"a", Str("{{b}}")>> >>) }

\* The variables argument: left out, passed as undefined, or a mapping.
VariableArgs == {<<>>, <<Undefined>>} \cup {<<v>> : v \in VariableMaps}

\* The arguments after the code: variables can only follow a locale.
FormatArgs ==
  {<<>>} \cup {l \o v : l \in LocaleArgs \ {<<>>}, v \in VariableArgs}

\* A field of an input record that is not there.
Missing == [type |-> "missing"]

OptionalField(values) == {Missing} \cup values

\* A StripeError record: each of its fields may be missing.
StripeError(type, decline_code, message, extra) ==
  LET fields == [type |-> type, decline_code |-> decline_code,
                 message |-> message, code |-> extra]
  IN  Obj([k \in {f \in DOMAIN fields : fields[f] /= Missing} |-> fields[k]])

ErrorTypes == {Str("StripeCardError"), Str("StripeAPIError")}

ErrorMessages == {Str("Your card has insufficient funds.")}

ErrorExtras == {Str("card_declined")}

ErrorDeclineCodes == {Undefined} \cup {Str(c) : c \in CodeInputs}

StripeErrors ==
  {StripeError(t, d, m, x) :
     t \in OptionalField(ErrorTypes), d \in OptionalField(ErrorDeclineCodes),
     m \in OptionalField(ErrorMessages), x \in OptionalField(ErrorExtras)}

(***************************************************************************)
(* Calls                                                                   *)
(***************************************************************************)
NoCall == [op |-> "none", args |-> <<>>]

\* The caller holds no result of an earlier call.
Idle == call = NoCall

\* One call: the caller passes args and the operation returns value; the table
\* is only read.
Invoke(op, args, value) ==
  /\ call' = [op |-> op, args |-> args]
  /\ result' = value
  /\ UNCHANGED <<table, callers, reminderVars>>

CallIsValidDeclineCode ==
  /\ Idle
  /\ \E s \in ValidationInputs :
       Invoke("isValidDeclineCode", <<Str(s)>>, isValidDeclineCode(Str(s)))

CallGetDeclineDescription ==
  /\ Idle
  /\ \E args \in {<<>>, <<Undefined>>} \cup {<<Str(s)>> : s \in CodeInputs} :
       Invoke("getDeclineDescription", args, getDeclineDescription(Arg(args, 1)))

CallGetDeclineMessage ==
  /\ Idle
  /\ \E s \in CodeInputs, l \in LocaleArgs :
       LET args == <<Str(s)>> \o l
       IN  Invoke("getDeclineMessage", args,
                  getDeclineMessage(Arg(args, 1), Arg(args, 2)))

CallGetDeclineCategory ==
  /\ Idle
  /\ \E s \in CodeInputs :
       Invoke("getDeclineCategory", <<Str(s)>>, getDeclineCategory(Str(s)))

CallIsHardDecline ==
  /\ Idle
  /\ \E s \in CodeInputs :
       Invoke("isHardDecline", <<Str(s)>>, isHardDecline(Str(s)))

CallIsSoftDecline ==
  /\ Idle
  /\ \E s \in CodeInputs :
       Invoke("isSoftDecline", <<Str(s)>>, isSoftDecline(Str(s)))

CallGetMessageFromStripeError ==
  /\ Idle
  /\ \E error \in StripeErrors, l \in LocaleArgs :
       LET args == <<error>> \o l
       IN  Invoke("getMessageFromStripeError", args,
                  getMessageFromStripeError(Arg(args, 1), Arg(args, 2)))

CallFormatDeclineMessage ==
  /\ Idle
  /\ \E s \in CodeInputs, rest \in FormatArgs :
       LET args == <<Str(s)>> \o rest
       IN  Invoke("formatDeclineMessage", args,
                  formatDeclineMessage(Arg(args, 1), Arg(args, 2), Arg(args, 3)))

CallGetAllDeclineCodes ==
  /\ Idle
  /\ Invoke("getAllDeclineCodes", <<>>, getAllDeclineCodes)

CallGetDocVersion ==
  /\ Idle
  /\ Invoke("getDocVersion", <<>>, getDocVersion)

\* The caller is done with the value it got and is free to call again.
Discard ==
  /\ ~Idle
  /\ call' = NoCall
  /\ result' = Undefined
  /\ UNCHANGED <<table, callers, reminderVars>>

(***************************************************************************)
(* The module after loading, and a caller that only calls the API          *)
(***************************************************************************)
\* The callers that use the API at the same time.
Callers == {"first", "second"}

\* A caller that is in no call.
NotCalling == [state |-> "idle", call |-> NoCall, result |-> Undefined]

\* The promise of a RenewalReminder method nobody has called yet.
NoPromise == [state |-> "none"]

\* The module loaded with one record of the table left without nextSteps.
Init_partialRecord ==
  /\ table = Obj([c \in DOMAIN DECLINE_CODES.props |->
                    IF c = "fraudulent"
                    THEN Obj([f \in DOMAIN DECLINE_CODES.props[c].props
                                      \ {"nextSteps"} |->
                                DECLINE_CODES.props[c].props[f]])
                    ELSE DECLINE_CODES.props[c]])
  /\ call = NoCall
  /\ result = Undefined
  /\ callers = [p \in Callers |-> NotCalling]
  /\ plans = <<>>
  /\ fetches = <<>>
  /\ subscriptions = <<>>
  /\ promise = NoPromise

Init ==
  /\ table = DECLINE_CODES
  /\ call = NoCall
  /\ result = Undefined
  /\ callers = [p \in Callers |-> NotCalling]
  /\ plans = <<>>
  /\ fetches = <<>>
  /\ subscriptions = <<>>
  /\ promise = NoPromise

Next ==
  \/ CallIsValidDeclineCode
  \/ CallGetDeclineDescription
  \/ CallGetDeclineMessage
  \/ CallGetDeclineCategory
  \/ CallIsHardDecline
  \/ CallIsSoftDecline
  \/ CallGetMessageFromStripeError
  \/ CallFormatDeclineMessage
  \/ CallGetAllDeclineCodes
  \/ CallGetDocVersion
  \/ Discard

Spec == Init /\ [][Next]_vars

(***************************************************************************)
(* A caller that also edits the exported table                             *)
(*                                                                         *)
(* DECLINE_CODES is exported as it is, and `translations` is optional with *)
(* optional locales, so a caller may delete a record's translations or one *)
(* locale of them between two calls.                                       *)
(***************************************************************************)
\* The records the caller edits.
EditableCodes == {"insufficient_funds", "fraudulent"}

\* The properties of an object but one.
Delete(props, key) == [k \in DOMAIN props \ {key} |-> props[k]]

\* The properties of an object with one of them set.
Assign(props, key, value) ==
  [k \in DOMAIN props \cup {key} |-> IF k = key THEN value ELSE props[k]]

\* `delete DECLINE_CODES[c].translations`
DeleteTranslations ==
  /\ Idle
  /\ \E c \in EditableCodes :
       /\ "translations" \in DOMAIN table.props[c].props
       /\ table' = Obj(Assign(table.props, c,
                              Obj(Delete(table.props[c].props, "translations"))))
  /\ UNCHANGED <<call, result, callers, reminderVars>>

\* `delete DECLINE_CODES[c].translations[l]`
DeleteLocale ==
  /\ Idle
  /\ \E c \in EditableCodes :
       /\ "translations" \in DOMAIN table.props[c].props
       /\ \E l \in DOMAIN table.props[c].props.translations.props :
            LET record == table.props[c].props
                translations == Obj(Delete(record.translations.props, l))
            IN  table' = Obj(Assign(table.props, c,
                                    Obj(Assign(record, "translations",
                                               translations))))
  /\ UNCHANGED <<call, result, callers, reminderVars>>

\* `delete getDeclineDescription(c).code.translations`: the record under
\* `code` is the table's own record, so the table loses the field as well.
DeleteReturnedTranslations ==
  /\ call.op = "getDeclineDescription"
  /\ Arg(call.args, 1).type = "string"
  /\ call.args[1].str \in EditableCodes
  /\ "translations" \in DOMAIN result.props.code.props
  /\ LET c == call.args[1].str
         record == Obj(Delete(table.props[c].props, "translations"))
     IN  /\ table' = Obj(Assign(table.props, c, record))
         /\ result' = Obj(Assign(result.props, "code", record))
  /\ UNCHANGED <<call, callers, reminderVars>>

NextEdit ==
  \/ CallIsValidDeclineCode
  \/ CallGetDeclineDescription
  \/ CallGetDeclineMessage
  \/ CallGetDeclineCategory
  \/ CallIsHardDecline
  \/ CallIsSoftDecline
  \/ CallGetMessageFromStripeError
  \/ CallFormatDeclineMessage
  \/ CallGetAllDeclineCodes
  \/ CallGetDocVersion
  \/ Discard
  \/ DeleteTranslations
  \/ DeleteLocale
  \/ DeleteReturnedTranslations

SpecEdit == Init /\ [][NextEdit]_vars

(***************************************************************************)
(* A caller that writes message templates into the exported table          *)
(*                                                                         *)
(* No message of the table has a placeholder. formatDeclineMessage reads   *)
(* its template from the table, so a template gets there by the caller     *)
(* assigning one to a record of the exported DECLINE_CODES.                *)
(***************************************************************************)
\* The records the caller gives a template.
TemplateCodes == {"insufficient_funds"}

\* The templates: placeholders used once, twice, side by side, next to other
\* braces, and with a name that has a character RegExp gives a meaning to.
Templates ==
  { "Please contact {{merchantName}} at {{supportEmail}}.",
    "Dear {{name}}, {{name}} cannot pay {{merchantName}}.",
    "{{a}}{{b}}",
    "{{n.me}} or {{name}} or {name}" }

\* `DECLINE_CODES[c].nextUserAction = template`
SetTemplate ==
  /\ Idle
  /\ \E c \in TemplateCodes, template \in Templates :
       table' = Obj(Assign(table.props, c,
                           Obj(Assign(table.props[c].props, "nextUserAction",
                                      Str(template)))))
  /\ UNCHANGED <<call, result, callers, reminderVars>>

NextTemplate ==
  \/ CallGetDeclineMessage
  \/ CallFormatDeclineMessage
  \/ Discard
  \/ SetTemplate

SpecTemplate == Init /\ [][NextTemplate]_vars

(***************************************************************************)
(* Several callers at once                                                 *)
(*                                                                         *)
(* Each caller enters an exported function and returns from it in a step   *)
(* of its own, so that the calls of the callers overlap in every order.    *)
(* The functions are synchronous; a host that runs them one at a time      *)
(* takes the two steps of a call together.                                 *)
(***************************************************************************)
\* The exported function a call names, applied to the call's arguments.
Apply(c) ==
  CASE c.op = "isValidDeclineCode" -> isValidDeclineCode(Arg(c.args, 1))
    [] c.op = "getDeclineDescription" -> getDeclineDescription(Arg(c.args, 1))
    [] c.op = "getDeclineMessage" ->
         getDeclineMessage(Arg(c.args, 1), Arg(c.args, 2))
    [] c.op = "getDeclineCategory" -> getDeclineCategory(Arg(c.args, 1))
    [] c.op = "isHardDecline" -> isHardDecline(Arg(c.args, 1))
    [] c.op = "isSoftDecline" -> isSoftDecline(Arg(c.args, 1))
    [] c.op = "getMessageFromStripeError" ->
         getMessageFromStripeError(Arg(c.args, 1), Arg(c.args, 2))
    [] c.op = "formatDeclineMessage" ->
         formatDeclineMessage(Arg(c.args, 1), Arg(c.args, 2), Arg(c.args, 3))
    [] c.op = "getAllDeclineCodes" -> getAllDeclineCodes
    [] c.op = "getDocVersion" -> getDocVersion

\* The calls the callers make: every exported function, with a declared code
\* and with a string that is none.
ConcurrentCalls ==
  {[op |-> op, args |-> <<Str(s)>>] :
     op \in {"isValidDeclineCode", "getDeclineDescription",
             "getDeclineCategory", "isHardDecline", "isSoftDecline"},
     s \in {"insufficient_funds", "unknown_code"}}
    \cup {[op |-> op, args |-> <<Str(s), Str(l)>>] :
            op \in {"getDeclineMessage", "formatDeclineMessage"},
            s \in {"insufficient_funds", "fraudulent"}, l \in {"en", "ja"}}
    \cup {[op |-> "formatDeclineMessage",
           args |-> <<Str("insufficient_funds"), Str("en"),
                      ObjectLiteral(<< <<"merchantName", Str("Acme Store")>> >>)>>],
          [op |-> "getMessageFromStripeError",
           args |-> <<StripeError(Str("StripeCardError"),
                                  Str("insufficient_funds"), Missing, Missing),
                      Str("ja")>>],
          [op |-> "getAllDeclineCodes", args |-> <<>>],
          [op |-> "getDocVersion", args |-> <<>>]}

\* Caller p enters an exported function.
Enter(p) ==
  /\ callers[p].state = "idle"
  /\ \E c \in ConcurrentCalls :
       callers' = [callers EXCEPT ![p] = [state |-> "running", call |-> c,
                                          result |-> Undefined]]
  /\ UNCHANGED <<lookupVars, reminderVars>>

\* Return with the arguments kept in one place all callers share: the
\* function answers for a call that is running, not always its own.
Return_sharedArguments(p) ==
  /\ callers[p].state = "running"
  /\ \E q \in Callers :
       /\ callers[q].state = "running"
       /\ callers' = [callers EXCEPT ![p].state = "returned",
                                     ![p].result = Apply(callers[q].call)]
  /\ UNCHANGED <<lookupVars, reminderVars>>

\* Return with the function having emptied what the caller passed.
Return_dropsArguments(p) ==
  /\ callers[p].state = "running"
  /\ callers' = [callers EXCEPT ![p].state = "returned",
                                ![p].result = Apply(callers[p].call),
                                ![p].call.args = <<>>]
  /\ UNCHANGED <<lookupVars, reminderVars>>

\* The function caller p is in returns: it has read its arguments and the
\* table and written nothing.
Return(p) ==
  /\ callers[p].state = "running"
  /\ callers' = [callers EXCEPT ![p].state = "returned",
                                ![p].result = Apply(callers[p].call)]
  /\ UNCHANGED <<lookupVars, reminderVars>>

\* Caller p is done with the value it got.
Leave(p) ==
  /\ callers[p].state = "returned"
  /\ callers' = [callers EXCEPT ![p] = NotCalling]
  /\ UNCHANGED <<lookupVars, reminderVars>>

NextConcurrent == \E p \in Callers : Enter(p) \/ Return(p) \/ Leave(p)

SpecConcurrent == Init /\ [][NextConcurrent]_vars

(***************************************************************************)
(* RenewalReminder                                                         *)
(*                                                                         *)
(* getSubscriptionsByPlans starts one getSubscription per plan; each pages *)
(* through stripe.subscriptions.list by calling itself until a page comes  *)
(* with has_more = false, and the calls return in turn, each putting its   *)
(* page in front of what the call it awaited returned. The steps of the    *)
(* fetches of different plans come in any order.                           *)
(***************************************************************************)
\* The most subscriptions the listing puts on one page.
MaxPageSize == 2

\* The most plans getSubscriptionsByPlans is given.
MaxPlans == 2

\* How many subscriptions of the account each plan has.
AccountSizes == [plan_a |-> 3, plan_b |-> 2, plan_c |-> 0]

PlanIds == DOMAIN AccountSizes

\* The n-th subscription of a plan.
Subscription(planId, n) ==
  [id |-> "sub_" \o ToString(n) \o "_of_" \o planId, plan |-> planId]

\* The subscriptions of a plan in the order the listing gives them.
Account(planId) ==
  [n \in 1..AccountSizes[planId] |-> Subscription(planId, n)]

\* The `plans` argument: any plans, a plan twice as well.
PlanLists ==
  UNION {[1..n -> PlanIds] : n \in 0..MaxPlans}

\* `moment().subtract(335, 'days').unix()`
Cutoff == "335 days before now"

\* The smallest of a set of numbers.
Min(S) == CHOOSE x \in S : \A y \in S : x <= y

\* stripe.subscriptions.list(param): the pages the listing may answer with,
\* the subscriptions after starting_after, at least one if there is one and
\* at most `limit`, has_more telling whether more follow.
ListSubscriptions(param) ==
  LET all == Account(param.plan)
      from == IF "starting_after" \in DOMAIN param
              THEN 1 + CHOOSE n \in 1..Len(all) : all[n].id = param.starting_after
              ELSE 1
      remaining == Len(all) + 1 - from
  IN  IF remaining = 0 THEN {[data |-> <<>>, has_more |-> FALSE]}
      ELSE {[data |-> SubSeq(all, from, from + k - 1),
             has_more |-> k < remaining] :
              k \in 1..Min({remaining, param.limit, MaxPageSize})}

\* getLastSubscriptionId returning the id of the first subscription.
getLastSubscriptionId_first(subscription) ==
  LET first == subscription.data[1]
  IN  first.id

getLastSubscriptionId(subscription) ==
  LET length == Len(subscription.data)
      last == subscription.data[length]
  IN  last.id

getListSubscriptionParam(planId, lastId) ==
  LET param == [plan |-> planId, limit |-> 100, created |-> [lte |-> Cutoff]]
  IN  IF lastId /= ""
      THEN [plan |-> param.plan, limit |-> param.limit,
            created |-> param.created, starting_after |-> lastId]
      ELSE param

\* getSubscription(planId) up to its first await: the request is sent.
StartFetch(planId) ==
  [plan |-> planId,
   requests |-> <<getListSubscriptionParam(planId, "")>>,
   pages |-> <<>>,
   state |-> "awaiting",
   frame |-> 1,
   value |-> <<>>]

\* getSubscriptionsByPlans(plans) up to its await: `subscriptions` is empty
\* and plans.map has started the fetch of every plan, each up to its await.
CallGetSubscriptionsByPlans ==
  /\ promise = NoPromise
  /\ \E given \in PlanLists :
       /\ plans' = given
       /\ fetches' = [i \in 1..Len(given) |-> StartFetch(given[i])]
  /\ subscriptions' = <<>>
  /\ promise' = [state |-> "pending"]
  /\ UNCHANGED <<lookupVars, callers>>

\* ReceivePage calling itself again whatever has_more says, as long as the
\* page has a subscription.
ReceivePage_ignoresHasMore(i) ==
  /\ fetches[i].state = "awaiting"
  /\ \E page \in ListSubscriptions(fetches[i].requests[Len(fetches[i].requests)]) :
       LET fetch == fetches[i]
           received == Append(fetch.pages, page)
       IN  IF page.data = <<>>
           THEN fetches' = [fetches EXCEPT
                  ![i].pages = received,
                  ![i].value = page.data,
                  ![i].frame = Len(received),
                  ![i].state = IF Len(received) = 1 THEN "fulfilled"
                               ELSE "returning"]
           ELSE fetches' = [fetches EXCEPT
                  ![i].pages = received,
                  ![i].requests =
                     Append(fetch.requests,
                            getListSubscriptionParam(
                              fetch.plan, getLastSubscriptionId(page)))]
  /\ UNCHANGED <<lookupVars, callers, plans, subscriptions, promise>>

\* The listing answers the request of fetch i and getSubscription goes on
\* after `await this.stripe.subscriptions.list(param)`: without has_more it
\* returns the page's data, otherwise it calls itself with the last id, which
\* sends the next request.
ReceivePage(i) ==
  /\ fetches[i].state = "awaiting"
  /\ \E page \in ListSubscriptions(fetches[i].requests[Len(fetches[i].requests)]) :
       LET fetch == fetches[i]
           received == Append(fetch.pages, page)
       IN  IF ~page.has_more
           THEN fetches' = [fetches EXCEPT
                  ![i].pages = received,
                  ![i].value = page.data,
                  ![i].frame = Len(received),
                  ![i].state = IF Len(received) = 1 THEN "fulfilled"
                               ELSE "returning"]
           ELSE fetches' = [fetches EXCEPT
                  ![i].pages = received,
                  ![i].requests =
                     Append(fetch.requests,
                            getListSubscriptionParam(
                              fetch.plan, getLastSubscriptionId(page)))]
  /\ UNCHANGED <<lookupVars, callers, plans, subscriptions, promise>>

\* The call of getSubscription that awaited the call of frame `frame` goes
\* on after `await this.getSubscription(planId, lastSubId)`: it pushes what
\* that call returned behind the data of its own page and returns the list.
ResumeAfterMore(i) ==
  /\ fetches[i].state = "returning"
  /\ LET fetch == fetches[i]
         lists == fetch.pages[fetch.frame - 1].data
     IN  fetches' = [fetches EXCEPT
           ![i].value = lists \o fetch.value,
           ![i].frame = fetch.frame - 1,
           ![i].state = IF fetch.frame - 1 = 1 THEN "fulfilled"
                        ELSE "returning"]
  /\ UNCHANGED <<lookupVars, callers, plans, subscriptions, promise>>

\* The callback of plans.map goes on after `await this.getSubscription(plan.id)`
\* and pushes the data to `subscriptions`.
PushData(i) ==
  /\ fetches[i].state = "fulfilled"
  /\ subscriptions' = subscriptions \o fetches[i].value
  /\ fetches' = [fetches EXCEPT ![i].state = "pushed"]
  /\ UNCHANGED <<lookupVars, callers, plans, promise>>

\* getSubscriptionsByPlans returning as soon as one callback is done.
ResolveAll_firstDone ==
  /\ promise.state = "pending"
  /\ \E i \in DOMAIN fetches : fetches[i].state = "pushed"
  /\ promise' = [state |-> "fulfilled", value |-> subscriptions]
  /\ UNCHANGED <<lookupVars, callers, plans, fetches, subscriptions>>

\* Promise.all is fulfilled when every callback is done, and
\* getSubscriptionsByPlans returns `subscriptions`.
ResolveAll ==
  /\ promise.state = "pending"
  /\ \A i \in DOMAIN fetches : fetches[i].state = "pushed"
  /\ promise' = [state |-> "fulfilled", value |-> subscriptions]
  /\ UNCHANGED <<lookupVars, callers, plans, fetches, subscriptions>>

NextReminder ==
  \/ CallGetSubscriptionsByPlans
  \/ \E i \in DOMAIN fetches : ReceivePage(i)
  \/ \E i \in DOMAIN fetches : ResumeAfterMore(i)
  \/ \E i \in DOMAIN fetches : PushData(i)
  \/ ResolveAll

SpecReminder == Init /\ [][NextReminder]_vars

\* The listing answers every request, and the runtime runs every
\* continuation whose awaited promise is settled.
SpecReminderFair ==
  /\ SpecReminder
  /\ \A i \in 1..MaxPlans :
       /\ WF_vars(i \in DOMAIN fetches /\ ReceivePage(i))
       /\ WF_vars(i \in DOMAIN fetches /\ ResumeAfterMore(i))
       /\ WF_vars(i \in DOMAIN fetches /\ PushData(i))
  /\ WF_vars(ResolveAll)

(***************************************************************************)
(* Properties                                                              *)
(***************************************************************************)
\* The code string of the call in hand (its first argument).
CalledCode == call.args[1].str

\* The record the table literal declares for a token.
Declared(c) == DECLINE_CODES.props[c].props

EmptyResult == Obj([docVersion |-> DOC_VERSION, code |-> Obj(EmptyProps)])

\* C1: isValidDeclineCode(s) is true exactly when s is one of the tokens
\* declared as keys of the table; it is false for every other string, the
\* names of built-in object members included.
C1_ValidIffDeclared ==
  call.op = "isValidDeclineCode"
    => result = Bool(CalledCode \in DeclaredTokens)

\* C2: getDeclineDescription called with no argument, the empty string or a
\* string that is no declared token returns an empty record under `code` and
\* the table's version under `docVersion`.
C2_UnknownGivesEmptyRecord ==
  (/\ call.op = "getDeclineDescription"
   /\ \/ Falsy(Arg(call.args, 1))
      \/ CalledCode \notin DeclaredTokens)
    => result = EmptyResult

\* C3: for a string that is no declared token getDeclineMessage returns
\* undefined with every locale, never an empty string or another value.
C3_UnknownMessageIsUndefined ==
  (call.op = "getDeclineMessage" /\ CalledCode \notin DeclaredTokens)
    => result = Undefined

C3_Witness ==
  /\ call.op = "getDeclineMessage"
  /\ call.args = <<Str("toString"), Str("ja")>>
  /\ result = Undefined

\* C4: for a declared code and a locale other than 'en', getDeclineMessage
\* returns the nextUserAction of the record's translation for that locale when
\* it has one, and undefined when the record has no translations or none for
\* that locale; it never returns the English nextUserAction instead.
C4_TranslationOrUndefined ==
  (/\ call.op = "getDeclineMessage"
   /\ CalledCode \in DeclaredTokens
   /\ Len(call.args) = 2
   /\ call.args[2].type = "string"
   /\ call.args[2].str /= "en")
    => LET record == table.props[CalledCode].props
           locale == call.args[2].str
           translated == /\ "translations" \in DOMAIN record
                         /\ locale \in DOMAIN record.translations.props
       IN  /\ translated =>
                result = record.translations.props[locale].props.nextUserAction
           /\ ~translated =>
                result = Undefined /\ result /= record.nextUserAction

C4_Witness ==
  /\ call.op = "getDeclineMessage"
  /\ call.args = <<Str("fraudulent"), Str("ja")>>
  /\ "translations" \notin DOMAIN table.props["fraudulent"].props
  /\ result = Undefined

\* C5: for a string that is no declared token isHardDecline and isSoftDecline
\* return false (a boolean, not undefined) and getDeclineCategory returns
\* undefined.
C5_UnknownIsNeitherHardNorSoft ==
  (call.op \in {"isHardDecline", "isSoftDecline", "getDeclineCategory"}
   /\ CalledCode \notin DeclaredTokens)
    => result = IF call.op = "getDeclineCategory" THEN Undefined
                ELSE Bool(FALSE)

C5_Witness ==
  /\ call.op = "isHardDecline"
  /\ call.args = <<Str("toString")>>
  /\ result = Bool(FALSE)

\* C6: getDeclineCategory returns undefined for a string that is no declared
\* token and, for a declared token, the category stored in its record, which
\* is SOFT_DECLINE or HARD_DECLINE.
C6_CategoryIsStored ==
  call.op = "getDeclineCategory"
    => IF CalledCode \in DeclaredTokens
       THEN /\ result = Declared(CalledCode).category
            /\ result \in {Str("SOFT_DECLINE"), Str("HARD_DECLINE")}
       ELSE result = Undefined

C6_Witness ==
  /\ call.op = "getDeclineCategory"
  /\ call.args = <<Str("fraudulent")>>
  /\ result = Str("HARD_DECLINE")

\* C7: for a declared code exactly one of isHardDecline and isSoftDecline is
\* true: isHardDecline exactly when getDeclineCategory is HARD_DECLINE,
\* isSoftDecline exactly when it is SOFT_DECLINE.
C7_ExactlyOneOfHardAndSoft ==
  (call.op \in {"isHardDecline", "isSoftDecline"}
   /\ CalledCode \in DeclaredTokens)
    => LET other == IF call.op = "isHardDecline"
                    THEN isSoftDecline(call.args[1])
                    ELSE isHardDecline(call.args[1])
           tag == IF call.op = "isHardDecline" THEN Str("HARD_DECLINE")
                  ELSE Str("SOFT_DECLINE")
       IN  /\ result \in {Bool(TRUE), Bool(FALSE)}
           /\ other \in {Bool(TRUE), Bool(FALSE)}
           /\ result /= other
           /\ result = Bool(getDeclineCategory(call.args[1]) = tag)

C7_Witness ==
  /\ call.op = "isSoftDecline"
  /\ call.args = <<Str("insufficient_funds")>>
  /\ result = Bool(TRUE)
  /\ isHardDecline(call.args[1]) = Bool(FALSE)

\* C8: for a declared code getDeclineDescription returns the table's version
\* and, under `code`, the complete record of the code: description, nextSteps,
\* nextUserAction, category and translations as the table stores them.
C8_DescriptionIsTheRecord ==
  (call.op = "getDeclineDescription"
   /\ ~Falsy(Arg(call.args, 1))
   /\ CalledCode \in DeclaredTokens)
    => /\ DOMAIN result.props = {"docVersion", "code"}
       /\ result.props.docVersion = DOC_VERSION
       /\ DOMAIN result.props.code.props =
            {"description", "nextSteps", "nextUserAction", "category",
             "translations"}
       /\ \A field \in DOMAIN Declared(CalledCode) :
            result.props.code.props[field] = Declared(CalledCode)[field]

C8_Witness ==
  /\ call.op = "getDeclineDescription"
  /\ call.args = <<Str("generic_decline")>>
  /\ result.props.code.props.description
       = Str("The card has been declined for an unknown reason.")
  /\ "ja" \in DOMAIN result.props.code.props.translations.props

\* C9: for a declared code getDeclineMessage with the locale left out and
\* with 'en' return the same value, the nextUserAction of the code's record.
C9_DefaultLocaleIsEnglish ==
  (/\ call.op = "getDeclineMessage"
   /\ CalledCode \in DeclaredTokens
   /\ Arg(call.args, 2) \in {Undefined, Str("en")})
    => result = Declared(CalledCode).nextUserAction

C9_Witness ==
  /\ call.op = "getDeclineMessage"
  /\ call.args = <<Str("insufficient_funds")>>
  /\ result = Str("Please try again using an alternative payment method.")

\* C10: for an error record whose decline_code is a non-empty string
\* getMessageFromStripeError returns what getDeclineMessage returns for that
\* code and the same locale, whatever the record's other fields are.
C10_ErrorDelegatesToMessage ==
  (/\ call.op = "getMessageFromStripeError"
   /\ "decline_code" \in DOMAIN call.args[1].props
   /\ call.args[1].props.decline_code.type = "string"
   /\ call.args[1].props.decline_code /= Str(""))
    => result = getDeclineMessage(call.args[1].props.decline_code,
                                  Arg(call.args, 2))

C10_Witness ==
  /\ call.op = "getMessageFromStripeError"
  /\ call.args[1].props = [type |-> Str("StripeAPIError"),
                           decline_code |-> Str("insufficient_funds"),
                           code |-> Str("card_declined")]
  /\ Len(call.args) = 2
  /\ call.args[2] = Str("ja")
  /\ result = Declared("insufficient_funds").translations.props.ja.props.nextUserAction

\* C11: for an error record whose decline_code is missing, undefined or the
\* empty string getMessageFromStripeError returns undefined with every
\* locale, whatever the record's type and message are.
C11_NoDeclineCodeNoMessage ==
  (/\ call.op = "getMessageFromStripeError"
   /\ \/ "decline_code" \notin DOMAIN call.args[1].props
      \/ call.args[1].props.decline_code \in {Undefined, Str("")})
    => result = Undefined

C11_Witness ==
  /\ call.op = "getMessageFromStripeError"
  /\ call.args[1].props = [type |-> Str("StripeCardError"),
                           message |-> Str("Your card has insufficient funds.")]
  /\ result = Undefined

\* What getDeclineMessage returns for the code and locale of the
\* formatDeclineMessage call in hand.
ResolvedMessage == getDeclineMessage(call.args[1], Arg(call.args, 2))

\* The call in hand passes a variable mapping.
VariablesSupplied == Arg(call.args, 3).type = "object"

\* C12: formatDeclineMessage returns undefined exactly when getDeclineMessage
\* returns undefined for the same code and locale, and returns a string
\* whenever getDeclineMessage returns a string, with or without a mapping.
C12_UndefinedIffNoMessage ==
  call.op = "formatDeclineMessage"
    => /\ (result = Undefined) <=> (ResolvedMessage = Undefined)
       /\ ResolvedMessage.type = "string" => result.type = "string"

\* The placeholder of a variable name.
Placeholder(name) == "{{" \o name \o "}}"

\* The text t stands in s at position q.
OccursAt(s, q, t) ==
  q + Len(t) - 1 <= Len(s) /\ SubSeq(s, q, q + Len(t) - 1) = t

\* s with every placeholder of a key of entries, where it stands in s from pos
\* on, exchanged for that key's value as it is; all other text is kept.
RECURSIVE Substitute(_, _, _)
Substitute(s, entries, pos) ==
  LET keyAt(q) == {i \in 1..Len(entries) : OccursAt(s, q, Placeholder(entries[i][1]))}
      hits == {q \in pos..Len(s) : keyAt(q) /= {}}
  IN  IF hits = {} THEN SubSeq(s, pos, Len(s))
      ELSE LET q == CHOOSE x \in hits : \A y \in hits : x <= y
               i == CHOOSE x \in keyAt(q) : \A y \in keyAt(q) : x <= y
           IN  SubSeq(s, pos, q - 1) \o entries[i][2].str
                 \o Substitute(s, entries, q + Len(Placeholder(entries[i][1])))

\* C13: with a variable mapping formatDeclineMessage returns the resolved
\* message with every occurrence of {{k}}, for each key k of the mapping,
\* exchanged for the value of k taken as it is, whatever characters the key
\* and the value hold, and with nothing else changed.
C13_EveryPlaceholderReplacedVerbatim ==
  (/\ call.op = "formatDeclineMessage"
   /\ VariablesSupplied
   /\ ResolvedMessage.type = "string")
    => result = Str(Substitute(ResolvedMessage.str,
                               ObjectEntries(Arg(call.args, 3)), 1))

\* How many times t stands in s.
Count(s, t) == Cardinality({q \in 1..Len(s) : OccursAt(s, q, t)})

\* The names of the placeholders of s: the text between a {{ and the next }}.
PlaceholderNames(s) ==
  LET opens == {q \in 1..Len(s) : OccursAt(s, q, "{{")}
      closes == {q \in 1..Len(s) : OccursAt(s, q, "}}")}
  IN  {SubSeq(s, i + 2, j - 1) :
         <<i, j>> \in {<<i, j>> \in opens \X closes :
                         i + 2 <= j /\ \A c \in closes : c < i + 2 \/ c >= j}}

\* The mapping with only the keys s refers to as {{key}}.
ReferencedOnly(variables, s) ==
  ObjectLiteral(SelectSeq(ObjectEntries(variables),
                          LAMBDA e : Count(s, Placeholder(e[1])) > 0))

\* C14: formatDeclineMessage leaves every placeholder {{name}} of the resolved
\* message whose name is no key of the mapping as it is, and a key the
\* message does not refer to as {{key}} changes nothing: the result is the
\* one the mapping without that key gives.
C14_OnlyReferencedKeysAct ==
  (/\ call.op = "formatDeclineMessage"
   /\ VariablesSupplied
   /\ ResolvedMessage.type = "string")
    => LET variables == Arg(call.args, 3)
           message == ResolvedMessage.str
       IN  /\ \A name \in PlaceholderNames(message) \ DOMAIN variables.props :
                /\ result.type = "string"
                /\ Count(result.str, Placeholder(name))
                     >= Count(message, Placeholder(name))
           /\ result = formatDeclineMessage(call.args[1], Arg(call.args, 2),
                                            ReferencedOnly(variables, message))

\* s has a {{ somewhere.
HasPlaceholderToken(s) == \E q \in 1..Len(s) : OccursAt(s, q, "{{")

\* C15: when the resolved message has no {{...}} token, formatDeclineMessage
\* with a variable mapping, whatever its keys and values, returns the
\* resolved message unchanged; no message of the table has a token, so this
\* is every declared code with every locale and every mapping.
C15_NoTokenFormatIsIdentity ==
  (/\ call.op = "formatDeclineMessage"
   /\ VariablesSupplied
   /\ ResolvedMessage.type = "string"
   /\ ~HasPlaceholderToken(ResolvedMessage.str))
    => result = ResolvedMessage

\* C16: when getDeclineMessage returns a string for the code and locale,
\* formatDeclineMessage without a variable mapping (left out or undefined)
\* returns that same string.
C16_NoVariablesGivesMessage ==
  (/\ call.op = "formatDeclineMessage"
   /\ Arg(call.args, 3) = Undefined
   /\ ResolvedMessage.type = "string")
    => result = ResolvedMessage

C16_Witness ==
  /\ call.op = "formatDeclineMessage"
  /\ call.args = <<Str("insufficient_funds"), Str("ja")>>
  /\ result = Declared("insufficient_funds").translations.props.ja.props.nextUserAction
  /\ result = ResolvedMessage

\* C17: formatDeclineMessage raises for no code, locale and variable mapping:
\* its outcome is a string or undefined whatever the names and values hold.
C17_FormatNeverRaises ==
  call.op = "formatDeclineMessage" => result.type \in {"string", "undefined"}

\* The values of the type DeclineCategory.
IsDeclineCategory(v) == v \in {Str("SOFT_DECLINE"), Str("HARD_DECLINE")}

\* A value of the type DeclineCodeInfo: the four required fields, each of
\* its type; translations may be there or not.
IsDeclineCodeInfo(v) ==
  /\ v.type = "object"
  /\ {"description", "nextSteps", "nextUserAction", "category"}
       \subseteq DOMAIN v.props
  /\ \A field \in {"description", "nextSteps", "nextUserAction"} :
       v.props[field].type = "string"
  /\ IsDeclineCategory(v.props.category)

\* A value of the type DeclineCodeResult: a version string and, under `code`,
\* a DeclineCodeInfo or an empty record.
IsDeclineCodeResult(v) ==
  /\ v.type = "object"
  /\ DOMAIN v.props = {"docVersion", "code"}
  /\ v.props.docVersion.type = "string"
  /\ v.props.code = Obj(EmptyProps) \/ IsDeclineCodeInfo(v.props.code)

\* C18: whatever string (empty, blank, non-ASCII, the name of a built-in
\* member) and whatever locale they get, the seven lookups raise nothing and
\* return a value of their declared type: a DeclineCodeResult, a string or
\* undefined, a DeclineCategory or undefined, a boolean.
C18_LookupsReturnDeclaredShape ==
  /\ call.op = "getDeclineDescription" => IsDeclineCodeResult(result)
  /\ call.op \in {"getDeclineMessage", "getMessageFromStripeError"}
       => result.type \in {"string", "undefined"}
  /\ call.op = "getDeclineCategory"
       => result = Undefined \/ IsDeclineCategory(result)
  /\ call.op \in {"isValidDeclineCode", "isHardDecline", "isSoftDecline"}
       => result.type = "boolean"

\* C19: the table stays what it was when the module was loaded whatever the
\* caller does with the values the module exports or returns, so for a
\* declared code getDeclineDescription and getDeclineMessage keep returning
\* the record and the translated message of the initial table.
C19_TableNeverChanges ==
  /\ table = DECLINE_CODES
  /\ (call.op = "getDeclineDescription" /\ ~Falsy(Arg(call.args, 1))
      /\ CalledCode \in DeclaredTokens)
       => result = Obj([docVersion |-> DOC_VERSION,
                        code |-> DECLINE_CODES.props[CalledCode]])
  /\ (call.op = "getDeclineMessage" /\ CalledCode \in DeclaredTokens
      /\ Arg(call.args, 2) = Str("ja"))
       => result = Declared(CalledCode).translations.props.ja.props.nextUserAction

\* C20: getAllDeclineCodes returns a list of 44 codes with
\* insufficient_funds, generic_decline, expired_card and incorrect_cvc in it.
C20_FortyFourCodes ==
  call.op = "getAllDeclineCodes"
    => /\ result.type = "array"
       /\ Len(result.items) = 44
       /\ \A c \in {"insufficient_funds", "generic_decline", "expired_card",
                    "incorrect_cvc"} :
            \E i \in 1..Len(result.items) : result.items[i] = Str(c)

\* A string with at least one character.
IsNonEmptyString(v) == v.type = "string" /\ v.str /= ""

\* C21: every key of the table has a complete record: a non-empty
\* description, nextSteps and nextUserAction and a category that is
\* SOFT_DECLINE or HARD_DECLINE; no record lacks one of the four.
C21_EveryRecordIsComplete ==
  \A c \in DOMAIN table.props :
    LET record == table.props[c]
    IN  /\ record.type = "object"
        /\ {"description", "nextSteps", "nextUserAction", "category"}
             \subseteq DOMAIN record.props
        /\ \A field \in {"description", "nextSteps", "nextUserAction"} :
             IsNonEmptyString(record.props[field])
        /\ IsDeclineCategory(record.props.category)

C21_Witness ==
  /\ call.op = "getDeclineDescription"
  /\ call.args = <<Str("fraudulent")>>
  /\ result.props.code = table.props.fraudulent
  /\ IsNonEmptyString(result.props.code.props.nextSteps)
  /\ result.props.code.props.category = Str("HARD_DECLINE")

\* s is written YYYY-MM-DD: four digits, a hyphen, two digits, a hyphen and
\* two digits, and nothing else.
IsDateString(s) ==
  /\ Len(s) = 10
  /\ \A i \in 1..10 :
       IF i \in {5, 8} THEN SubSeq(s, i, i) = "-"
       ELSE SubSeq(s, i, i) \in Digits

\* C22: getDocVersion returns a string written YYYY-MM-DD, and every result
\* of getDeclineDescription, for a declared code, another string or no
\* argument, has that same string under docVersion.
C22_VersionIsADateAndAlwaysThere ==
  /\ call.op = "getDocVersion"
       => result.type = "string" /\ IsDateString(result.str)
  /\ call.op = "getDeclineDescription"
       => result.props.docVersion = getDocVersion

C22_Witness ==
  /\ call.op = "getDeclineDescription"
  /\ call.args = <<>>
  /\ result.props.docVersion = Str("2024-12-18")
  /\ IsDateString(result.props.docVersion.str)

\* What the call c returns to a caller that is alone: the function applied
\* to the call's arguments on the table as it was loaded.
ResultAlone(c) == IF table = DECLINE_CODES THEN Apply(c) ELSE Throw("other table")

InAllDeclineCodes(v) ==
  \E i \in 1..Len(getAllDeclineCodes.items) : getAllDeclineCodes.items[i] = v

\* C25: isValidDeclineCode(s) is true exactly for the strings s that are
\* elements of getAllDeclineCodes(), and that list has no token twice.
C25_ValidIffListed ==
  /\ call.op = "isValidDeclineCode"
       => result = Bool(InAllDeclineCodes(call.args[1]))
  /\ call.op = "getAllDeclineCodes"
       => \A i, j \in 1..Len(result.items) :
            result.items[i] = result.items[j] => i = j

\* C26: every record of the table has a Japanese translation with a
\* non-empty description and nextUserAction, and for every code of
\* getAllDeclineCodes() getDeclineMessage returns a non-empty string with
\* 'ja' and with 'en'.
C26_EveryCodeHasBothMessages ==
  /\ \A c \in DOMAIN table.props :
       LET ja == OptionalGet(Get(table.props[c], "translations"), "ja")
       IN  /\ ja.type = "object"
           /\ IsNonEmptyString(Get(ja, "description"))
           /\ IsNonEmptyString(Get(ja, "nextUserAction"))
  /\ (/\ call.op = "getDeclineMessage"
      /\ InAllDeclineCodes(call.args[1])
      /\ Arg(call.args, 2) \in {Str("en"), Str("ja")})
       => IsNonEmptyString(result)

C26_Witness ==
  /\ call.op = "getDeclineMessage"
  /\ call.args = <<Str("expired_card"), Str("ja")>>
  /\ InAllDeclineCodes(Str("expired_card"))
  /\ IsNonEmptyString(result)
  /\ result /= Declared("expired_card").nextUserAction

\* The mappings with the key-value pairs of variables written in each order.
Reorderings(variables) ==
  LET entries == ObjectEntries(variables)
  IN  {ObjectLiteral([i \in 1..Len(entries) |-> entries[order[i]]]) :
         order \in Permutations(1..Len(entries))}

\* C27: the result of formatDeclineMessage is the same for every order in
\* which the key-value pairs of the mapping are written, also when a value
\* holds the placeholder of another key of the mapping.
C27_KeyOrderDoesNotMatter ==
  (call.op = "formatDeclineMessage" /\ VariablesSupplied)
    => \A reordered \in Reorderings(Arg(call.args, 3)) :
         formatDeclineMessage(call.args[1], Arg(call.args, 2), reordered)
           = result

\* The data of the pages, one list after the other.
RECURSIVE AllPages(_)
AllPages(pages) ==
  IF pages = <<>> THEN <<>> ELSE Head(pages).data \o AllPages(Tail(pages))

\* getSubscription has returned to the callback of plans.map.
Fetched(fetch) == fetch.state \in {"fulfilled", "pushed"}

\* C28: getSubscription(planId) sends its first request without
\* starting_after and every later request with the id of the last
\* subscription of the page received just before, all for planId, and
\* returns the pages it received one after the other in the order of the
\* requests, every subscription of every page once.
C28_PagesInRequestOrder ==
  \A i \in DOMAIN fetches :
    LET fetch == fetches[i]
    IN  /\ \A k \in 1..Len(fetch.requests) : fetch.requests[k].plan = plans[i]
        /\ "starting_after" \notin DOMAIN fetch.requests[1]
        /\ \A k \in 2..Len(fetch.requests) :
             /\ "starting_after" \in DOMAIN fetch.requests[k]
             /\ fetch.requests[k].starting_after
                  = fetch.pages[k - 1].data[Len(fetch.pages[k - 1].data)].id
        /\ Fetched(fetch) => fetch.value = AllPages(fetch.pages)

C28_Witness ==
  /\ plans = <<"plan_a">>
  /\ Fetched(fetches[1])
  /\ Len(fetches[1].pages) = 2
  /\ Len(fetches[1].pages[1].data) = 2
  /\ fetches[1].requests[2].starting_after = Subscription("plan_a", 2).id
  /\ fetches[1].value = Account("plan_a")

\* C29: getSubscription sends one request for each page it receives and one
\* more only while it waits for the next page, sends none after a page with
\* has_more = false, which is therefore its last page, and, the listing
\* answering each request, it returns in the end.
C29_OneRequestPerPageThenReturns ==
  /\ [](\A i \in DOMAIN fetches :
          LET fetch == fetches[i]
              waiting == IF fetch.state = "awaiting" THEN 1 ELSE 0
          IN  /\ Len(fetch.requests) = Len(fetch.pages) + waiting
              /\ \A k \in 1..Len(fetch.pages) :
                   ~fetch.pages[k].has_more
                     => k = Len(fetch.pages) /\ fetch.state /= "awaiting")
  /\ \A i \in 1..MaxPlans :
       (i \in DOMAIN fetches /\ fetches[i].state = "awaiting")
         ~> (i \in DOMAIN fetches /\ Fetched(fetches[i]))

C29_Witness ==
  /\ plans = <<"plan_b">>
  /\ fetches[1].state = "fulfilled"
  /\ Len(fetches[1].requests) = 2
  /\ Len(fetches[1].pages) = 2
  /\ fetches[1].pages[1].has_more
  /\ ~fetches[1].pages[2].has_more

\* What the fetches returned, one list after the other, in the given order.
RECURSIVE InOrder(_, _)
InOrder(order, k) ==
  IF k > Len(order) THEN <<>>
  ELSE fetches[order[k]].value \o InOrder(order, k + 1)

\* C30: getSubscriptionsByPlans returns only when the fetch of every plan
\* has returned and its data is pushed, and what it returns is, for some
\* order of the plans, the subscriptions of each plan as fetched, one
\* plan's after another's: every subscription of every plan, no other.
C30_AllPlansEachContiguous ==
  promise.state = "fulfilled"
    => /\ \A i \in DOMAIN fetches :
            /\ fetches[i].state = "pushed"
            /\ fetches[i].value = Account(plans[i])
       /\ \E order \in Permutations(DOMAIN fetches) :
            promise.value = InOrder(order, 1)

C30_Witness ==
  /\ promise.state = "fulfilled"
  /\ plans = <<"plan_a", "plan_b">>
  /\ promise.value = Account("plan_b") \o Account("plan_a")

====
